---- MODULE Spec2Model ----
(***************************************************************************)
(* Model of the hayabusa account layer: zero-copy decode / initialize of   *)
(* a typed record (crates/ser/src/zc.rs), the account cursor and the       *)
(* instruction context (crates/context/src/lib.rs).                        *)
(*                                                                         *)
(* Spec     : one account record and the zero-copy operations on it, with  *)
(*            T = CounterAccount of the counter example.                   *)
(* SpecCtx  : one account list, a cursor over it and Ctx::construct.       *)
(* SpecRemaining : one constructed context and the cursors its             *)
(*            remaining_accounts() hands out.                              *)
(* SpecAccounts : the account wrappers (crates/accounts/src) and           *)
(*            CpiCtx::try_new (crates/cpi/src/lib.rs), each built from one *)
(*            account view chosen initially.                               *)
(* SpecDecode   : DecodeIx::decode as derived for an instruction record    *)
(*            (crates/decode-instruction-derive/src/lib.rs).               *)
(* SpecDispatch : instructions handed to the counter program, through the  *)
(*            dispatch! macro (crates/instruction-dispatch-macro) and      *)
(*            through the dispatcher of the program's expansion.           *)
(***************************************************************************)
EXTENDS Integers, Sequences, FiniteSets, TLC

VARIABLES
    account_info,   \* the record: owner, data buffer, borrow state of the data
                    \* (in SpecAccounts, the account view a wrapper is built from)
    refs,           \* live Ref<T> guards handed out by checked / raw decode
    ref_muts,       \* live RefMut<T> guards (checked / raw decode, initialize)
    zeroed,         \* TRUE from a successful initialize until the first write
    last,           \* the last zero-copy call: operation, inputs, pre-state, result,
                    \* and the call before it
    account_views,  \* the account list of the invocation (SpecCtx)
    iter,           \* the cursor over account_views: ptr and end as offsets
    returned,       \* the records the successful next() calls returned, in order
    calls,          \* number of next() calls made on the cursor
    clast,          \* the last cursor call: operation, pre-state, result
    ctx,            \* the result of the last Ctx::construct
    wlast,          \* the last wrapper / CpiCtx construction: inputs, steps, result
    world,          \* the records of the invocation, by address (SpecDispatch)
    dlast,          \* the last dispatch: inputs, steps taken, result
    cursors         \* the cursors ctx.remaining_accounts() returned, each with the
                    \* records it has yielded (SpecRemaining)

zc_vars  == <<account_info, refs, ref_muts, zeroed, last>>
ctx_vars == <<account_views, iter, returned, calls, clast, ctx>>
ext_vars == <<wlast, world, dlast, cursors>>
vars     == <<account_info, refs, ref_muts, zeroed, last,
              account_views, iter, returned, calls, clast, ctx,
              wlast, world, dlast, cursors>>

----------------------------------------------------------------------------
(* Program identifiers *)

\* crate::ID of the counter program (declare_id!).
ID == "HPoDm7Kf63B6TpFKV7S8YSd7sGde6sVdztiDBEVkfuxz"

\* The system program, target of the create_account CPI.
SYSTEM_ID == "11111111111111111111111111111111"

\* Some other program.
OTHER_ID == "OtherProgram"

ProgramIds == {ID, SYSTEM_ID, OTHER_ID}

\* OwnerProgram::OWNER of CounterAccount.
OWNER == ID

----------------------------------------------------------------------------
(* Results *)

Ok                  == "Ok"
InvalidAccountOwner == "InvalidAccountOwner"
InvalidAccountData  == "InvalidAccountData"
AccountBorrowFailed == "AccountBorrowFailed"
IncorrectProgramId  == "IncorrectProgramId"
InvalidAccount      == "InvalidAccount"
MissingRequiredSignature == "MissingRequiredSignature"

NoValue == "NoValue"

----------------------------------------------------------------------------
(* Bytes and the layout of T = CounterAccount { count: u64 } *)

\* Discriminator::DISCRIMINATOR of CounterAccount.
DISCRIMINATOR == <<187, 192, 81, 6, 110, 149, 93, 2>>

\* Discriminator of another type (TestEvent), a wrong tag for CounterAccount.
TEST_EVENT_DISCRIMINATOR == <<67, 250, 47, 235, 20, 103, 152, 144>>

\* core::mem::size_of::<CounterAccount>()
SIZE_OF_T == 8

\* Len::DISCRIMINATED_LEN
DISCRIMINATED_LEN == 8 + SIZE_OF_T

Min(a, b) == IF a < b THEN a ELSE b

\* &s[..n] for n <= len, the whole of s otherwise (used to cut initial buffers).
Take(s, n) == SubSeq(s, 1, Min(n, Len(s)))

Zeros(n) == [i \in 1..n |-> 0]

RECURSIVE ShiftRight8(_, _)
\* v >> (8 * k)
ShiftRight8(v, k) == IF k = 0 THEN v ELSE ShiftRight8(v \div 256, k - 1)

\* u64::to_le_bytes: the in-memory image of a u64 field on the (little-endian) target.
U64ToLeBytes(v) == [i \in 1..8 |-> ShiftRight8(v, i - 1) % 256]

RECURSIVE U64FromLeBytes(_)
\* u64::from_le_bytes
U64FromLeBytes(b) ==
    IF b = <<>> THEN 0 ELSE Head(b) + 256 * U64FromLeBytes(Tail(b))

\* bytemuck::from_bytes::<CounterAccount>(&d[8..DISCRIMINATED_LEN]): the typed view,
\* read as the value of its count field.
from_bytes(d) == [count |-> U64FromLeBytes(SubSeq(d, 9, DISCRIMINATED_LEN))]

----------------------------------------------------------------------------
(* Borrow state of the record's data (pinocchio AccountInfo)                *)

\* The data borrow counter of AccountInfo has three bits: at most 7 live
\* immutable borrows.
MAX_IMMUTABLE_BORROWS == 7

NOT_BORROWED == [imm |-> 0, mut |-> FALSE]

\* AccountInfo::try_borrow_data succeeds
can_borrow_data(bs) == ~bs.mut /\ bs.imm < MAX_IMMUTABLE_BORROWS

\* AccountInfo::try_borrow_mut_data succeeds
can_borrow_mut_data(bs) == ~bs.mut /\ bs.imm = 0

borrow_data(bs)      == [bs EXCEPT !.imm = @ + 1]
borrow_mut_data(bs)  == [bs EXCEPT !.mut = TRUE]
\* Drop of Ref / RefMut
drop_ref(bs)         == [bs EXCEPT !.imm = @ - 1]
drop_ref_mut(bs)     == [bs EXCEPT !.mut = FALSE]

\* The outcome of a call: result code, the record afterwards, the guard handed
\* out ("Ref", "RefMut", "&", "&mut" or NoValue) and the typed value seen.
Outcome(res, acc, guard, value) ==
    [res |-> res, acc |-> acc, guard |-> guard, value |-> value]

Err(code, acc) == Outcome(code, acc, NoValue, NoValue)

----------------------------------------------------------------------------
(* Zero-copy decode (crates/ser/src/zc.rs) *)

\* AccountInfo::is_owned_by
is_owned_by(acc, program) == acc.owner = program

\* Variant of try_deserialize_zc that accepts any buffer of at least
\* DISCRIMINATED_LEN bytes.
try_deserialize_zc_at_least(acc) ==
    IF OWNER # acc.owner THEN Err(InvalidAccountOwner, acc)
    ELSE IF ~can_borrow_data(acc.borrow_state) THEN Err(AccountBorrowFailed, acc)
    ELSE LET borrowed == [acc EXCEPT !.borrow_state = borrow_data(@)]
             released == [borrowed EXCEPT !.borrow_state = drop_ref(@)]
         IN  IF Len(borrowed.data) < DISCRIMINATED_LEN
                 THEN Err(InvalidAccountData, released)
             ELSE IF SubSeq(borrowed.data, 1, 8) # DISCRIMINATOR
                 THEN Err(InvalidAccountData, released)
             ELSE Outcome(Ok, borrowed, "Ref", from_bytes(borrowed.data))

\* try_deserialize_zc::<T> (ZcDeserialize::try_deserialize): owner, borrow,
\* length, discriminator. The guard `data` is dropped on the early returns.
try_deserialize_zc(acc) ==
    IF OWNER # acc.owner THEN Err(InvalidAccountOwner, acc)
    ELSE IF ~can_borrow_data(acc.borrow_state) THEN Err(AccountBorrowFailed, acc)
    ELSE LET borrowed == [acc EXCEPT !.borrow_state = borrow_data(@)]
             released == [borrowed EXCEPT !.borrow_state = drop_ref(@)]
         IN  IF Len(borrowed.data) # DISCRIMINATED_LEN
                 THEN Err(InvalidAccountData, released)
             ELSE IF SubSeq(borrowed.data, 1, 8) # DISCRIMINATOR
                 THEN Err(InvalidAccountData, released)
             ELSE Outcome(Ok, borrowed, "Ref", from_bytes(borrowed.data))

\* Variant of try_deserialize_zc_mut whose early returns keep the mutable
\* borrow taken.
try_deserialize_zc_mut_leaking(acc) ==
    IF OWNER # acc.owner THEN Err(InvalidAccountOwner, acc)
    ELSE IF ~can_borrow_mut_data(acc.borrow_state) THEN Err(AccountBorrowFailed, acc)
    ELSE LET borrowed == [acc EXCEPT !.borrow_state = borrow_mut_data(@)]
         IN  IF Len(borrowed.data) # DISCRIMINATED_LEN
                 THEN Err(InvalidAccountData, borrowed)
             ELSE IF SubSeq(borrowed.data, 1, 8) # DISCRIMINATOR
                 THEN Err(InvalidAccountData, borrowed)
             ELSE Outcome(Ok, borrowed, "RefMut", from_bytes(borrowed.data))

\* Variant of try_deserialize_zc_mut without the discriminator comparison.
try_deserialize_zc_mut_no_discriminator(acc) ==
    IF OWNER # acc.owner THEN Err(InvalidAccountOwner, acc)
    ELSE IF ~can_borrow_mut_data(acc.borrow_state) THEN Err(AccountBorrowFailed, acc)
    ELSE LET borrowed == [acc EXCEPT !.borrow_state = borrow_mut_data(@)]
             released == [borrowed EXCEPT !.borrow_state = drop_ref_mut(@)]
         IN  IF Len(borrowed.data) # DISCRIMINATED_LEN
                 THEN Err(InvalidAccountData, released)
             ELSE Outcome(Ok, borrowed, "RefMut", from_bytes(borrowed.data))

\* try_deserialize_zc_mut::<T> (ZcDeserializeMut::try_deserialize_mut)
try_deserialize_zc_mut(acc) ==
    IF OWNER # acc.owner THEN Err(InvalidAccountOwner, acc)
    ELSE IF ~can_borrow_mut_data(acc.borrow_state) THEN Err(AccountBorrowFailed, acc)
    ELSE LET borrowed == [acc EXCEPT !.borrow_state = borrow_mut_data(@)]
             released == [borrowed EXCEPT !.borrow_state = drop_ref_mut(@)]
         IN  IF Len(borrowed.data) # DISCRIMINATED_LEN
                 THEN Err(InvalidAccountData, released)
             ELSE IF SubSeq(borrowed.data, 1, 8) # DISCRIMINATOR
                 THEN Err(InvalidAccountData, released)
             ELSE Outcome(Ok, borrowed, "RefMut", from_bytes(borrowed.data))

\* Variant of try_deserialize_raw that checks the length before the owner.
try_deserialize_raw_length_first(acc) ==
    IF Len(acc.data) # DISCRIMINATED_LEN THEN Err(InvalidAccountData, acc)
    ELSE IF ~is_owned_by(acc, OWNER) THEN Err(InvalidAccountOwner, acc)
    ELSE IF ~can_borrow_data(acc.borrow_state) THEN Err(AccountBorrowFailed, acc)
    ELSE LET borrowed == [acc EXCEPT !.borrow_state = borrow_data(@)]
         IN  Outcome(Ok, borrowed, "Ref", from_bytes(borrowed.data))

\* RawZcDeserialize::try_deserialize_raw: owner, length, then the borrow.
try_deserialize_raw(acc) ==
    IF ~is_owned_by(acc, OWNER) THEN Err(InvalidAccountOwner, acc)
    ELSE IF Len(acc.data) # DISCRIMINATED_LEN THEN Err(InvalidAccountData, acc)
    ELSE IF ~can_borrow_data(acc.borrow_state) THEN Err(AccountBorrowFailed, acc)
    ELSE LET borrowed == [acc EXCEPT !.borrow_state = borrow_data(@)]
         IN  Outcome(Ok, borrowed, "Ref", from_bytes(borrowed.data))

\* Variant of try_deserialize_raw_mut that takes the mutable borrow without
\* looking at the borrow state.
try_deserialize_raw_mut_unguarded(acc) ==
    IF ~is_owned_by(acc, OWNER) THEN Err(InvalidAccountOwner, acc)
    ELSE IF Len(acc.data) # DISCRIMINATED_LEN THEN Err(InvalidAccountData, acc)
    ELSE LET borrowed == [acc EXCEPT !.borrow_state = borrow_mut_data(@)]
         IN  Outcome(Ok, borrowed, "RefMut", from_bytes(borrowed.data))

\* RawZcDeserializeMut::try_deserialize_raw_mut
try_deserialize_raw_mut(acc) ==
    IF ~is_owned_by(acc, OWNER) THEN Err(InvalidAccountOwner, acc)
    ELSE IF Len(acc.data) # DISCRIMINATED_LEN THEN Err(InvalidAccountData, acc)
    ELSE IF ~can_borrow_mut_data(acc.borrow_state) THEN Err(AccountBorrowFailed, acc)
    ELSE LET borrowed == [acc EXCEPT !.borrow_state = borrow_mut_data(@)]
         IN  Outcome(Ok, borrowed, "RefMut", from_bytes(borrowed.data))

\* Variant of try_deserialize_raw_unchecked that goes through
\* try_borrow_data.
try_deserialize_raw_unchecked_guarded(acc) ==
    IF ~is_owned_by(acc, OWNER) THEN Err(InvalidAccountOwner, acc)
    ELSE IF Len(acc.data) # DISCRIMINATED_LEN THEN Err(InvalidAccountData, acc)
    ELSE IF ~can_borrow_data(acc.borrow_state) THEN Err(AccountBorrowFailed, acc)
    ELSE Outcome(Ok, acc, "&", NoValue)

\* RawZcDeserializeUnchecked::try_deserialize_raw_unchecked: owner, length,
\* borrow_data_unchecked. The borrow state is neither read nor written. What is
\* read through the returned reference is left open (aliasing is the caller's
\* contract).
try_deserialize_raw_unchecked(acc) ==
    IF ~is_owned_by(acc, OWNER) THEN Err(InvalidAccountOwner, acc)
    ELSE IF Len(acc.data) # DISCRIMINATED_LEN THEN Err(InvalidAccountData, acc)
    ELSE Outcome(Ok, acc, "&", NoValue)

\* Variant of try_deserialize_raw_unchecked_mut that goes through
\* try_borrow_mut_data.
try_deserialize_raw_unchecked_mut_guarded(acc) ==
    IF ~is_owned_by(acc, OWNER) THEN Err(InvalidAccountOwner, acc)
    ELSE IF Len(acc.data) # DISCRIMINATED_LEN THEN Err(InvalidAccountData, acc)
    ELSE IF ~can_borrow_mut_data(acc.borrow_state) THEN Err(AccountBorrowFailed, acc)
    ELSE Outcome(Ok, acc, "&mut", NoValue)

\* RawZcDeserializeUncheckedMut::try_deserialize_raw_unchecked_mut
try_deserialize_raw_unchecked_mut(acc) ==
    IF ~is_owned_by(acc, OWNER) THEN Err(InvalidAccountOwner, acc)
    ELSE IF Len(acc.data) # DISCRIMINATED_LEN THEN Err(InvalidAccountData, acc)
    ELSE Outcome(Ok, acc, "&mut", NoValue)

----------------------------------------------------------------------------
(* Initialize *)

\* CheckProgramId::check_program_id for a type whose ID is `expected`.
check_program_id(expected, id) ==
    IF id # expected THEN IncorrectProgramId ELSE Ok

\* create_account CPI (system program): valid only on a zero-length buffer;
\* grows the buffer to `space` zero bytes and assigns the owner.
create_account(acc, owner_program_id, space) ==
    IF Len(acc.data) # 0 THEN Err(InvalidAccountData, acc)
    ELSE Outcome(Ok, [acc EXCEPT !.data = Zeros(space), !.owner = owner_program_id],
                 NoValue, NoValue)

\* Variant of try_initialize_zc that drops the result of create_account
\* instead of propagating it.
try_initialize_zc_create_unchecked(acc, owner_program_id, system_program) ==
    LET checked == check_program_id(SYSTEM_ID, system_program) IN
    IF checked # Ok THEN Err(checked, acc)
    ELSE LET created == create_account(acc, owner_program_id, DISCRIMINATED_LEN) IN
         IF ~can_borrow_mut_data(created.acc.borrow_state)
             THEN Err(AccountBorrowFailed, created.acc)
         ELSE LET borrowed == [created.acc EXCEPT !.borrow_state = borrow_mut_data(@)]
                  written  == [borrowed EXCEPT
                                  !.data = DISCRIMINATOR \o SubSeq(@, 9, Len(@))]
              IN  Outcome(Ok, written, "RefMut", NoValue)

\* Variant of try_initialize_zc that never writes the discriminator.
try_initialize_zc_untagged(acc, owner_program_id, system_program) ==
    LET checked == check_program_id(SYSTEM_ID, system_program) IN
    IF checked # Ok THEN Err(checked, acc)
    ELSE LET created == create_account(acc, owner_program_id, DISCRIMINATED_LEN) IN
         IF created.res # Ok THEN Err(created.res, created.acc)
         ELSE IF ~can_borrow_mut_data(created.acc.borrow_state)
             THEN Err(AccountBorrowFailed, created.acc)
         ELSE LET borrowed == [created.acc EXCEPT !.borrow_state = borrow_mut_data(@)]
              IN  Outcome(Ok, borrowed, "RefMut", from_bytes(borrowed.data))

\* try_initialize_zc::<T>: CpiCtx::try_new on the system program record,
\* create_account, mutable borrow, write of the discriminator.
try_initialize_zc(acc, owner_program_id, system_program) ==
    LET checked == check_program_id(SYSTEM_ID, system_program) IN
    IF checked # Ok THEN Err(checked, acc)
    ELSE LET created == create_account(acc, owner_program_id, DISCRIMINATED_LEN) IN
         IF created.res # Ok THEN Err(created.res, created.acc)
         ELSE IF ~can_borrow_mut_data(created.acc.borrow_state)
             THEN Err(AccountBorrowFailed, created.acc)
         ELSE LET borrowed == [created.acc EXCEPT !.borrow_state = borrow_mut_data(@)]
                  written  == [borrowed EXCEPT
                                  !.data = DISCRIMINATOR \o SubSeq(@, 9, Len(@))]
              IN  Outcome(Ok, written, "RefMut", from_bytes(written.data))

\* A write of the count field through a live RefMut<CounterAccount>.
write_count(acc, v) ==
    [acc EXCEPT !.data = SubSeq(@, 1, 8) \o U64ToLeBytes(v)]

----------------------------------------------------------------------------
(* The record under test and the calls made on it *)

\* Field values of the records the host hands in.
Counts == {0, 5, 261}

InitialLens == {0, 8, DISCRIMINATED_LEN - 1, DISCRIMINATED_LEN, DISCRIMINATED_LEN + 1}

InitialBuffers ==
    { Take(d \o U64ToLeBytes(v) \o <<0>>, n) :
        d \in {DISCRIMINATOR, TEST_EVENT_DISCRIMINATOR}, v \in Counts, n \in InitialLens }

\* Every invocation starts with no borrow taken on any record.
InitialAccounts ==
    { [owner |-> o, data |-> b, borrow_state |-> NOT_BORROWED] :
        o \in ProgramIds, b \in InitialBuffers }

NoCall ==
    [op |-> "none", res |-> NoValue, guard |-> NoValue, value |-> NoValue,
     pre |-> NoValue, pre_refs |-> 0, pre_ref_muts |-> 0, pre_zeroed |-> FALSE,
     owner_program_id |-> NoValue, system_program |-> NoValue,
     prev |-> [op |-> "none", res |-> NoValue]]

\* One call on the record: the record, the live guards and the history are
\* updated from the call's outcome.
Call(op, out, owner_program_id, system_program) ==
    /\ account_info' = out.acc
    /\ refs' = CASE out.guard = "Ref" -> refs + 1
                 [] op = "drop_ref" -> refs - 1
                 [] OTHER -> refs
    /\ ref_muts' = CASE out.guard = "RefMut" -> ref_muts + 1
                     [] op = "drop_ref_mut" -> ref_muts - 1
                     [] OTHER -> ref_muts
    /\ zeroed' = CASE op = "try_initialize" /\ out.res = Ok -> TRUE
                   [] op = "write" -> FALSE
                   [] OTHER -> zeroed
    /\ last' = [op |-> op, res |-> out.res, guard |-> out.guard, value |-> out.value,
                pre |-> account_info, pre_refs |-> refs, pre_ref_muts |-> ref_muts,
                pre_zeroed |-> zeroed,
                owner_program_id |-> owner_program_id, system_program |-> system_program,
                prev |-> [op |-> last.op, res |-> last.res]]
    /\ UNCHANGED ctx_vars
    /\ UNCHANGED ext_vars

TryDeserialize ==
    Call("try_deserialize", try_deserialize_zc(account_info), NoValue, NoValue)

TryDeserializeMut ==
    Call("try_deserialize_mut", try_deserialize_zc_mut(account_info), NoValue, NoValue)

TryDeserializeRaw ==
    Call("try_deserialize_raw", try_deserialize_raw(account_info), NoValue, NoValue)

TryDeserializeRawMut ==
    Call("try_deserialize_raw_mut", try_deserialize_raw_mut(account_info), NoValue, NoValue)

TryDeserializeRawUnchecked ==
    Call("try_deserialize_raw_unchecked", try_deserialize_raw_unchecked(account_info),
         NoValue, NoValue)

TryDeserializeRawUncheckedMut ==
    Call("try_deserialize_raw_unchecked_mut",
         try_deserialize_raw_unchecked_mut(account_info), NoValue, NoValue)

TryInitialize ==
    \E owner_program_id \in ProgramIds, system_program \in ProgramIds :
        Call("try_initialize",
             try_initialize_zc(account_info, owner_program_id, system_program),
             owner_program_id, system_program)

\* A Ref<T> goes out of scope.
DropRef ==
    /\ refs > 0
    /\ Call("drop_ref",
            Outcome(Ok, [account_info EXCEPT !.borrow_state = drop_ref(@)],
                    NoValue, NoValue),
            NoValue, NoValue)

\* A RefMut<T> goes out of scope.
DropRefMut ==
    /\ ref_muts > 0
    /\ Call("drop_ref_mut",
            Outcome(Ok, [account_info EXCEPT !.borrow_state = drop_ref_mut(@)],
                    NoValue, NoValue),
            NoValue, NoValue)

\* The holder of a RefMut<T> assigns the count field.
WriteCount ==
    /\ ref_muts > 0
    /\ \E v \in Counts :
        Call("write", Outcome(Ok, write_count(account_info, v), NoValue, v),
             NoValue, NoValue)

----------------------------------------------------------------------------
(* The account list and the cursor (crates/context/src/lib.rs) *)

\* The records the host may put in the account list of an invocation.
USER_ACCOUNT ==
    [address |-> "user", owner |-> SYSTEM_ID, is_signer |-> TRUE, is_writable |-> TRUE]
COUNTER_ACCOUNT ==
    [address |-> "counter", owner |-> ID, is_signer |-> FALSE, is_writable |-> TRUE]
SYSTEM_PROGRAM_ACCOUNT ==
    [address |-> SYSTEM_ID, owner |-> "NativeLoader1111111111111111111111111111111",
     is_signer |-> FALSE, is_writable |-> FALSE]
OTHER_ACCOUNT ==
    [address |-> "other", owner |-> OTHER_ID, is_signer |-> FALSE, is_writable |-> FALSE]

AccountViews == {USER_ACCOUNT, COUNTER_ACCOUNT, SYSTEM_PROGRAM_ACCOUNT, OTHER_ACCOUNT}

\* Longest account list handed in.
MaxAccounts == 4

\* next() calls made on an exhausted cursor before the caller gives up.
MaxExtraCalls == 2

AccountLists == UNION { [1..n -> AccountViews] : n \in 0..MaxAccounts }

\* A slice &[AccountView] of the invocation's account list: the offset of its
\* first element and its length.
Slice(base, len) == [base |-> base, len |-> len]

\* The elements of a slice of the list `mem`.
SliceViews(mem, slice) == SubSeq(mem, slice.base + 1, slice.base + slice.len)

\* AccountIter::new(slice): ptr at the first element, end one past the last.
\* Pointers are offsets into the invocation's account list.
AccountIter_new(slice) == [ptr |-> slice.base, end |-> slice.base + slice.len]

\* Variant of AccountIter::next that returns the current record without
\* advancing.
AccountIter_next_stuck(mem, it) ==
    IF it.ptr = it.end
        THEN [res |-> InvalidAccount, ret |-> NoValue, iter |-> it]
        ELSE [res |-> Ok, ret |-> [at |-> it.ptr, view |-> mem[it.ptr + 1]], iter |-> it]

\* Variant of AccountIter::next without the exhaustion check.
AccountIter_next_unchecked(mem, it) ==
    [res |-> Ok,
     ret |-> IF it.ptr < Len(mem)
                 THEN [at |-> it.ptr, view |-> mem[it.ptr + 1]] ELSE NoValue,
     iter |-> [it EXCEPT !.ptr = @ + 1]]

\* AccountIter::next: InvalidAccount when ptr == end, else a reference to the
\* record at ptr (its position and the record there), and ptr advances by one.
AccountIter_next(mem, it) ==
    IF it.ptr = it.end
        THEN [res |-> InvalidAccount, ret |-> NoValue, iter |-> it]
        ELSE [res |-> Ok,
              ret |-> [at |-> it.ptr, view |-> mem[it.ptr + 1]],
              iter |-> [it EXCEPT !.ptr = @ + 1]]

\* AccountIter::remaining_len: end.offset_from(ptr)
AccountIter_remaining_len(it) == it.end - it.ptr

\* AccountIter::remaining: from_raw_parts(ptr, remaining_len())
AccountIter_remaining(it) == Slice(it.ptr, AccountIter_remaining_len(it))

----------------------------------------------------------------------------
(* Account structs and Ctx::construct *)

\* Variant of Signer::try_from_account_view that accepts every record.
Signer_try_from_account_view_any(view) == Ok

\* Signer: the record's signer flag must be set.
Signer_try_from_account_view(view) ==
    IF ~view.is_signer THEN MissingRequiredSignature ELSE Ok

\* Variant of ZcAccount<T>::try_from_account_info that refuses a record T's
\* program does not own.
ZcAccount_try_from_account_view_owned(view) ==
    IF view.owner # OWNER THEN InvalidAccountOwner ELSE Ok

\* ZcAccount<T>::try_from_account_info: no validation.
ZcAccount_try_from_account_view(view) == Ok

\* Program<System>: the owner tag must be the fixed program identifier.
Program_try_from_account_view(view) ==
    IF view.owner # SYSTEM_ID THEN InvalidAccountOwner ELSE Ok

\* One wrapper of the account structs, by the name of its type.
Inner_try_from_account_view(wrapper, view) ==
    CASE wrapper = "Signer" -> Signer_try_from_account_view(view)
      [] wrapper = "ZcAccount<CounterAccount>" -> ZcAccount_try_from_account_view(view)
      [] wrapper = "Program<System>" -> Program_try_from_account_view(view)

\* Variant of Mut::try_from_account_view that passes on the inner wrapper's
\* own error.
Mut_try_from_account_view_propagating(inner, view) ==
    IF ~view.is_writable THEN InvalidAccount
    ELSE Inner_try_from_account_view(inner, view)

\* Mut<X>: the record's writable flag must be set and X must construct.
Mut_try_from_account_view(inner, view) ==
    IF ~view.is_writable THEN InvalidAccount
    ELSE IF Inner_try_from_account_view(inner, view) # Ok THEN InvalidAccount
    ELSE Ok

\* FromAccountView::try_from_account_view of a declared field.
try_from_account_view(field, view) ==
    IF field.mut THEN Mut_try_from_account_view(field.wrapper, view)
    ELSE Inner_try_from_account_view(field.wrapper, view)

\* The fields of the account structs of the counter program, in declaration
\* order.
UpdateCounter ==
    << [name |-> "user", mut |-> FALSE, wrapper |-> "Signer"],
       [name |-> "counter", mut |-> TRUE, wrapper |-> "ZcAccount<CounterAccount>"] >>

InitializeCounter ==
    << [name |-> "user", mut |-> TRUE, wrapper |-> "Signer"],
       [name |-> "counter", mut |-> TRUE, wrapper |-> "ZcAccount<CounterAccount>"],
       [name |-> "system_program", mut |-> FALSE, wrapper |-> "Program<System>"] >>

AccountStructs == {UpdateCounter, InitializeCounter}

RECURSIVE try_from_account_views(_, _, _)
\* FromAccountViews::try_from_account_views: for each field in declaration
\* order, account_views.next()? and then the field's try_from_account_view(..)?.
try_from_account_views(fields, mem, it) ==
    IF fields = <<>> THEN [res |-> Ok, accounts |-> <<>>, iter |-> it]
    ELSE LET nxt == AccountIter_next(mem, it) IN
         IF nxt.res # Ok THEN [res |-> nxt.res, accounts |-> <<>>, iter |-> nxt.iter]
         ELSE LET built == try_from_account_view(Head(fields), nxt.ret.view) IN
              IF built # Ok THEN [res |-> built, accounts |-> <<>>, iter |-> nxt.iter]
              ELSE LET rest == try_from_account_views(Tail(fields), mem, nxt.iter) IN
                   IF rest.res # Ok THEN rest
                   ELSE [res |-> Ok,
                         accounts |-> <<[name |-> Head(fields).name, at |-> nxt.ret.at,
                                         view |-> nxt.ret.view]>> \o rest.accounts,
                         iter |-> rest.iter]

\* Variant of Ctx::construct that keeps the whole account list as the
\* remaining accounts.
Ctx_construct_keeps_all(fields, mem) ==
    LET slice == Slice(0, Len(mem))
        built == try_from_account_views(fields, mem, AccountIter_new(slice))
    IN  IF built.res # Ok
            THEN [res |-> built.res, fields |-> fields]
            ELSE [res |-> Ok, fields |-> fields, accounts |-> built.accounts,
                  remaining_accounts |-> slice]

\* Ctx::construct: a cursor over the list, the account struct built through
\* it, and the cursor's remaining slice stored as remaining_accounts.
Ctx_construct(fields, mem) ==
    LET built == try_from_account_views(fields, mem, AccountIter_new(Slice(0, Len(mem))))
    IN  IF built.res # Ok
            THEN [res |-> built.res, fields |-> fields]
            ELSE [res |-> Ok, fields |-> fields, accounts |-> built.accounts,
                  remaining_accounts |-> AccountIter_remaining(built.iter)]

\* Variant of Ctx::remaining_accounts whose cursor starts at the head of the
\* whole account list.
Ctx_remaining_accounts_from_head(ctx_) ==
    AccountIter_new(Slice(0, ctx_.remaining_accounts.base + ctx_.remaining_accounts.len))

\* Ctx::remaining_accounts(&self): AccountIter::new(self.remaining_accounts)
Ctx_remaining_accounts(ctx_) == AccountIter_new(ctx_.remaining_accounts)

\* No wrapper built and no instruction dispatched yet.
NoWrapperCall == [op |-> "none", res |-> NoValue]

NoDispatch == [op |-> "none", res |-> NoValue, n |-> 0, created |-> FALSE, total |-> 0]

InitExtIdle ==
    /\ wlast = NoWrapperCall
    /\ world = <<>>
    /\ dlast = NoDispatch
    /\ cursors = <<>>

NoCursorCall == [op |-> "none", res |-> NoValue, ret |-> NoValue, pre |-> NoValue]

NoCtx == [res |-> NoValue, fields |-> <<>>]

InitCtxIdle ==
    /\ account_views = <<>>
    /\ iter = AccountIter_new(Slice(0, 0))
    /\ returned = <<>>
    /\ calls = 0
    /\ clast = [NoCursorCall EXCEPT !.pre = iter]
    /\ ctx = NoCtx
    /\ InitExtIdle

InitZcIdle ==
    /\ account_info = [owner |-> SYSTEM_ID, data |-> <<>>, borrow_state |-> NOT_BORROWED]
    /\ refs = 0
    /\ ref_muts = 0
    /\ zeroed = FALSE
    /\ last = [NoCall EXCEPT !.pre = account_info]

\* A call on the cursor.
CursorCall(op, res, ret, it) ==
    /\ iter' = it
    /\ clast' = [op |-> op, res |-> res, ret |-> ret, pre |-> iter]
    /\ UNCHANGED <<account_views, ctx>>
    /\ UNCHANGED zc_vars
    /\ UNCHANGED ext_vars

IterNext ==
    /\ calls < Len(account_views) + MaxExtraCalls
    /\ LET nxt == AccountIter_next(account_views, iter) IN
        /\ CursorCall("next", nxt.res, nxt.ret, nxt.iter)
        /\ returned' = IF nxt.res = Ok THEN Append(returned, nxt.ret) ELSE returned
    /\ calls' = calls + 1

IterRemaining ==
    /\ CursorCall("remaining", Ok, AccountIter_remaining(iter), iter)
    /\ UNCHANGED <<returned, calls>>

IterRemainingLen ==
    /\ CursorCall("remaining_len", Ok, AccountIter_remaining_len(iter), iter)
    /\ UNCHANGED <<returned, calls>>

\* Ctx::<T>::construct(account_views) for one of the account structs.
Construct ==
    /\ \E fields \in AccountStructs : ctx' = Ctx_construct(fields, account_views)
    /\ UNCHANGED <<account_views, iter, returned, calls, clast>>
    /\ UNCHANGED zc_vars
    /\ UNCHANGED ext_vars

InitCtx ==
    /\ InitZcIdle
    /\ account_views \in AccountLists
    /\ iter = AccountIter_new(Slice(0, Len(account_views)))
    /\ returned = <<>>
    /\ calls = 0
    /\ clast = [NoCursorCall EXCEPT !.pre = iter]
    /\ ctx = NoCtx
    /\ InitExtIdle

NextCtx ==
    \/ IterNext
    \/ IterRemaining
    \/ IterRemainingLen
    \/ Construct

SpecCtx == InitCtx /\ [][NextCtx]_vars

----------------------------------------------------------------------------
(* Spec: the zero-copy operations on one record *)

Init ==
    /\ account_info \in InitialAccounts
    /\ refs = 0
    /\ ref_muts = 0
    /\ zeroed = FALSE
    /\ last = [NoCall EXCEPT !.pre = account_info]
    /\ InitCtxIdle

Next ==
    \/ TryDeserialize
    \/ TryDeserializeMut
    \/ TryDeserializeRaw
    \/ TryDeserializeRawMut
    \/ TryDeserializeRawUnchecked
    \/ TryDeserializeRawUncheckedMut
    \/ TryInitialize
    \/ DropRef
    \/ DropRefMut
    \/ WriteCount

Spec == Init /\ [][Next]_vars

----------------------------------------------------------------------------
(* The cursors over the remaining accounts of a context: SpecRemaining *)

\* Cursors taken from one context.
MaxCursors == 2

\* Ctx::construct, once, at the start of the handler.
ConstructCtx ==
    /\ ctx = NoCtx
    /\ Construct

\* let mut remaining = ctx.remaining_accounts();
RemainingAccounts ==
    /\ ctx.res = Ok
    /\ Len(cursors) < MaxCursors
    /\ cursors' = Append(cursors, [iter |-> Ctx_remaining_accounts(ctx), yielded |-> <<>>])
    /\ UNCHANGED <<wlast, world, dlast>>
    /\ UNCHANGED zc_vars
    /\ UNCHANGED ctx_vars

\* remaining.next() on one of the cursors taken.
RemainingNext ==
    /\ \E k \in 1..Len(cursors) :
        LET nxt == AccountIter_next(account_views, cursors[k].iter) IN
        cursors' = [cursors EXCEPT
                       ![k] = [iter |-> nxt.iter,
                               yielded |-> IF nxt.res = Ok THEN Append(@.yielded, nxt.ret)
                                           ELSE @.yielded]]
    /\ UNCHANGED <<wlast, world, dlast>>
    /\ UNCHANGED zc_vars
    /\ UNCHANGED ctx_vars

InitRemaining == InitCtx

NextRemaining ==
    \/ ConstructCtx
    \/ RemainingAccounts
    \/ RemainingNext

SpecRemaining == InitRemaining /\ [][NextRemaining]_vars

\* C30: every cursor ctx.remaining_accounts() returned starts at the head of
\* the stored remaining subslice and ends at its end, and the context still
\* holds the subslice construct stored: what a cursor has yielded is the
\* records of that subslice from its head, in order, whatever has been
\* consumed from the other cursors.
C30_FreshCursorEachCall ==
    cursors # <<>> =>
        /\ ctx.res = Ok
        /\ ctx.remaining_accounts
               = Slice(Len(ctx.fields), Len(account_views) - Len(ctx.fields))
        /\ \A k \in 1..Len(cursors) :
            LET c    == cursors[k]
                base == ctx.remaining_accounts.base
                rem  == SliceViews(account_views, ctx.remaining_accounts)
            IN  /\ Len(c.yielded) <= Len(rem)
                /\ c.iter.ptr = base + Len(c.yielded)
                /\ c.iter.end = base + Len(rem)
                /\ \A i \in 1..Len(c.yielded) :
                       /\ c.yielded[i].view = rem[i]
                       /\ c.yielded[i].at = base + i - 1

\* Two records were consumed from the first cursor, and the second cursor
\* then yielded the first of them again.
C30_Witness ==
    /\ Len(cursors) = 2
    /\ Len(cursors[1].yielded) = 2
    /\ Len(cursors[2].yielded) = 1
    /\ cursors[2].yielded[1] = cursors[1].yielded[1]
    /\ cursors[1].yielded[1].view # cursors[1].yielded[2].view

----------------------------------------------------------------------------
(* Properties of zero-copy decode and initialize (Spec) *)

CheckedOps   == {"try_deserialize", "try_deserialize_mut"}
RawOps       == {"try_deserialize_raw", "try_deserialize_raw_mut"}
UncheckedOps == {"try_deserialize_raw_unchecked", "try_deserialize_raw_unchecked_mut"}
MutOps       == {"try_deserialize_mut", "try_deserialize_raw_mut"}

Called(ops) == last.op \in ops

PreOwnerOk == last.pre.owner = OWNER
PreLenOk   == Len(last.pre.data) = DISCRIMINATED_LEN
PreDiscOk  == Len(last.pre.data) >= 8 /\ SubSeq(last.pre.data, 1, 8) = DISCRIMINATOR
PreLive    == last.pre_refs + last.pre_ref_muts > 0

\* No live view stands in the way of the view the last call asked for.
PreViewFree ==
    IF last.op \in MutOps
        THEN last.pre_refs = 0 /\ last.pre_ref_muts = 0
        ELSE last.pre_ref_muts = 0 /\ last.pre_refs < MAX_IMMUTABLE_BORROWS

\* C1: a checked or raw decode of a record whose owner is not T's declared
\* owner fails with InvalidAccountOwner, whatever the buffer and the live views.
C1_WrongOwnerFails ==
    (Called(CheckedOps \cup RawOps) /\ ~PreOwnerOk) => last.res = InvalidAccountOwner

\* C1 witness: a mutable checked decode rejected for its owner while a mutable
\* view of the record is live and the buffer has the right length.
C1_Witness ==
    /\ last.op = "try_deserialize_mut"
    /\ ~PreOwnerOk /\ PreLenOk /\ last.pre_ref_muts = 1
    /\ last.res = InvalidAccountOwner

C3_Original ==
    (Called(CheckedOps \cup RawOps) /\ PreOwnerOk /\ PreLenOk /\ ~PreDiscOk) =>
        /\ (Called(CheckedOps) => last.res = InvalidAccountData)
        /\ (Called(RawOps) => last.res = Ok)

\* C3 amended: with the right owner and length, a wrong discriminator and no
\* live view standing in the way of the borrow, checked decode fails with
\* InvalidAccountData and raw decode succeeds.
C3_DiscriminatorChecked ==
    (Called(CheckedOps \cup RawOps) /\ PreOwnerOk /\ PreLenOk /\ ~PreDiscOk
        /\ PreViewFree) =>
        /\ (Called(CheckedOps) => last.res = InvalidAccountData)
        /\ (Called(RawOps) => last.res = Ok)

\* C3 witness: a raw decode succeeds on a record of the right owner and length
\* whose tag is not T's, right after a checked decode of it was rejected.
C3_Witness ==
    /\ last.op = "try_deserialize_raw"
    /\ PreOwnerOk /\ PreLenOk /\ ~PreDiscOk
    /\ last.res = Ok
    /\ last.prev = [op |-> "try_deserialize", res |-> InvalidAccountData]

\* C4: single writer or many readers: at most one live mutable view, and none
\* while an immutable view is live.
C4_SingleWriterOrManyReaders ==
    /\ ref_muts <= 1
    /\ (ref_muts = 1 => refs = 0)

\* C4 witness: several immutable views are live at once and a mutable decode
\* has just been turned away.
C4_Witness ==
    /\ refs >= 2 /\ ref_muts = 0
    /\ last.op = "try_deserialize_mut" /\ last.res = AccountBorrowFailed

\* C5: a mutable checked or raw decode fails while any view of the record is
\* live; unchecked decode leaves the borrow state and the live views as they
\* are and succeeds on the record those views were decoded from.
C5_AliasingRefused ==
    /\ (Called(MutOps) /\ PreLive) => last.res # Ok
    /\ Called(UncheckedOps) =>
        /\ account_info = last.pre
        /\ refs = last.pre_refs /\ ref_muts = last.pre_ref_muts
        /\ (PreLive /\ PreOwnerOk) => last.res = Ok

\* C5 witness: an unchecked mutable decode succeeds while an immutable view is
\* live, right after a mutable raw decode failed on that view.
C5_Witness ==
    /\ last.op = "try_deserialize_raw_unchecked_mut"
    /\ last.res = Ok
    /\ last.pre_refs > 0
    /\ last.prev = [op |-> "try_deserialize_raw_mut", res |-> AccountBorrowFailed]

\* C25: unchecked decode skips the borrow guard and never fails for a check
\* it skips: its result depends on the owner and the length only, being
\* InvalidAccountOwner for a wrong owner, else InvalidAccountData for a wrong
\* length, else Ok, whatever views are live and whatever the tag is.
C25_UncheckedErrorsOnlyOfItsChecks ==
    Called(UncheckedOps) =>
        /\ last.res = (IF ~PreOwnerOk THEN InvalidAccountOwner
                       ELSE IF ~PreLenOk THEN InvalidAccountData
                       ELSE Ok)
        /\ last.res # AccountBorrowFailed
        /\ (PreOwnerOk /\ PreLenOk /\ ~PreDiscOk) => last.res = Ok

\* C25 witness: an unchecked read-only decode succeeds while a mutable view of
\* the record is live.
C25_Witness ==
    /\ last.op = "try_deserialize_raw_unchecked"
    /\ last.res = Ok
    /\ last.pre_ref_muts = 1

\* C28: a checked decode that fails its length or discriminator check has
\* released the borrow it took: the record and its borrow state are those
\* before the call and no view was added, so the borrow state always counts
\* exactly the live views, and a decode that follows a failed one with no view
\* live is never turned away for the borrow.
C28_FailedDecodeReleasesBorrow ==
    /\ (Called(CheckedOps) /\ last.res = InvalidAccountData) =>
           /\ account_info = last.pre
           /\ refs = last.pre_refs /\ ref_muts = last.pre_ref_muts
    /\ account_info.borrow_state = [imm |-> refs, mut |-> ref_muts > 0]
    /\ (last.prev.op \in CheckedOps /\ last.prev.res = InvalidAccountData
            /\ last.pre_refs + last.pre_ref_muts = 0) =>
           last.res # AccountBorrowFailed

\* C28 witness: a mutable raw decode succeeds right after a mutable checked
\* decode of the same record failed on the discriminator.
C28_Witness ==
    /\ last.op = "try_deserialize_raw_mut"
    /\ last.res = Ok
    /\ last.prev = [op |-> "try_deserialize_mut", res |-> InvalidAccountData]
    /\ PreOwnerOk /\ PreLenOk /\ ~PreDiscOk

\* C6 as stated: initialize on a non-empty buffer fails with InvalidAccountData
\* and changes nothing; the second of two consecutive initialize calls fails.
C6_Original ==
    /\ (Called({"try_initialize"}) /\ Len(last.pre.data) # 0) =>
        /\ last.res = InvalidAccountData
        /\ account_info = last.pre
    /\ (Called({"try_initialize"}) /\ last.prev.op = "try_initialize") => last.res # Ok

\* C6 amended: initialize on a non-empty buffer fails and changes nothing, with
\* IncorrectProgramId when the record passed as system program is not the
\* system program and with InvalidAccountData otherwise; an initialize that
\* directly follows a successful initialize fails.
C6_InitializeOnlyEmpty ==
    /\ (Called({"try_initialize"}) /\ Len(last.pre.data) # 0) =>
        /\ last.res = IF last.system_program # SYSTEM_ID
                          THEN IncorrectProgramId ELSE InvalidAccountData
        /\ account_info = last.pre
    /\ (Called({"try_initialize"}) /\ last.prev = [op |-> "try_initialize", res |-> Ok])
            => last.res # Ok

\* C6 witness: a second initialize right after a successful one is rejected
\* with InvalidAccountData and leaves the record as the first left it.
C6_Witness ==
    /\ last.op = "try_initialize"
    /\ last.prev = [op |-> "try_initialize", res |-> Ok]
    /\ last.res = InvalidAccountData
    /\ account_info = last.pre

\* C7 as stated: a successful initialize of an empty record leaves a buffer of
\* 8 + size(T) bytes tagged with T's discriminator and owned by the program
\* passed in, and a checked decode that follows (no write in between) succeeds
\* with T's zero value.
C7_Original ==
    /\ (Called({"try_initialize"}) /\ last.res = Ok /\ Len(last.pre.data) = 0) =>
        /\ Len(account_info.data) = DISCRIMINATED_LEN
        /\ SubSeq(account_info.data, 1, 8) = DISCRIMINATOR
        /\ account_info.owner = last.owner_program_id
    /\ (Called(CheckedOps) /\ last.pre_zeroed) =>
        /\ last.res = Ok
        /\ last.value = [count |-> 0]

\* C7 amended: as stated, for a checked decode made once the mutable view
\* returned by initialize has been released and when the program passed in as
\* owner is T's declared owner.
C7_InitializeThenDecode ==
    /\ (Called({"try_initialize"}) /\ last.res = Ok /\ Len(last.pre.data) = 0) =>
        /\ Len(account_info.data) = DISCRIMINATED_LEN
        /\ SubSeq(account_info.data, 1, 8) = DISCRIMINATOR
        /\ account_info.owner = last.owner_program_id
        /\ ref_muts = last.pre_ref_muts + 1
    /\ (Called(CheckedOps) /\ last.pre_zeroed /\ PreViewFree /\ PreOwnerOk) =>
        /\ last.res = Ok
        /\ last.value = [count |-> 0]

\* C7 witness: initialize, release of the returned view, then a checked decode
\* that yields the zero value.
C7_Witness ==
    /\ last.op = "try_deserialize"
    /\ last.pre_zeroed
    /\ last.prev = [op |-> "drop_ref_mut", res |-> Ok]
    /\ last.res = Ok
    /\ last.value = [count |-> 0]

----------------------------------------------------------------------------
(* Properties of the cursor and of Ctx::construct (SpecCtx) *)

NumAccounts == Len(account_views)

\* C8: the first N next() calls return the records at positions 0..N-1 in
\* order, every later call fails with InvalidAccount, and after k successful
\* calls remaining() is the last N-k records and remaining_len() is N-k.
C8_CursorOrder ==
    /\ Len(returned) = Min(calls, NumAccounts)
    /\ \A k \in 1..Len(returned) :
           returned[k] = [at |-> k - 1, view |-> account_views[k]]
    /\ clast.op = "next" =>
           IF calls <= NumAccounts
               THEN clast.res = Ok /\ clast.ret = returned[calls]
               ELSE clast.res = InvalidAccount
    /\ clast.op = "remaining" =>
           /\ SliceViews(account_views, clast.ret)
                  = SubSeq(account_views, Len(returned) + 1, NumAccounts)
           /\ clast.ret.len = NumAccounts - Len(returned)
    /\ clast.op = "remaining_len" => clast.ret = NumAccounts - Len(returned)

\* C8 witness: on a list of three records the fifth next() call fails after
\* three calls returned the whole list in order.
C8_Witness ==
    /\ NumAccounts = 3
    /\ calls = 5
    /\ clast.op = "next" /\ clast.res = InvalidAccount
    /\ [k \in 1..3 |-> returned[k].view] = account_views

\* C9: a constructed context holds one record per declared field, field i
\* built from list position i, and its remaining accounts are the N - F
\* records after them, in order.
C9_ConstructConsumesInOrder ==
    ctx.res = Ok =>
        LET F == Len(ctx.fields) IN
        /\ NumAccounts >= F
        /\ Len(ctx.accounts) = F
        /\ \A i \in 1..F :
               /\ ctx.accounts[i].name = ctx.fields[i].name
               /\ ctx.accounts[i].at = i - 1
               /\ ctx.accounts[i].view = account_views[i]
        /\ ctx.remaining_accounts.len = NumAccounts - F
        /\ SliceViews(account_views, ctx.remaining_accounts)
               = SubSeq(account_views, F + 1, NumAccounts)

\* C9 witness: UpdateCounter built from a list of four records leaves the last
\* two as remaining accounts.
C9_Witness ==
    /\ ctx.res = Ok
    /\ ctx.fields = UpdateCounter
    /\ NumAccounts = 4
    /\ SliceViews(account_views, ctx.remaining_accounts) = SubSeq(account_views, 3, 4)
    /\ account_views[3] # account_views[4]

\* C10: the cursor's position stays within 0..length and never decreases: a
\* successful next() adds one, every other call leaves it where it was.
C10_CursorMonotone ==
    /\ 0 <= iter.ptr /\ iter.ptr <= iter.end
    /\ iter.end = NumAccounts
    /\ iter.ptr >= clast.pre.ptr
    /\ iter.end = clast.pre.end
    /\ (clast.op = "next" /\ clast.res = Ok) => iter.ptr = clast.pre.ptr + 1
    /\ (clast.op = "next" /\ clast.res # Ok) => iter.ptr = clast.pre.ptr
    /\ clast.op \in {"remaining", "remaining_len"} => iter.ptr = clast.pre.ptr

\* C10 witness: a failed next() on an exhausted cursor of two records leaves
\* the position at the end.
C10_Witness ==
    /\ clast.op = "next" /\ clast.res # Ok
    /\ clast.pre.ptr = 2
    /\ iter.ptr = 2 /\ iter.end = 2

----------------------------------------------------------------------------
(* Typed wrappers and CpiCtx (crates/accounts, crates/cpi): SpecAccounts    *)

InvalidSeeds == "InvalidSeeds"

\* NoMeta: no validation metadata.
NoMeta == "NoMeta"

RECURSIVE JoinSeeds(_)
JoinSeeds(seeds) ==
    IF seeds = <<>> THEN "" ELSE Head(seeds) \o "/" \o JoinSeeds(Tail(seeds))

\* The derived address of (program id, seeds, bump): a one-way,
\* collision-resistant function of the three, defined by the host.
derive_address(program_id, seeds, bump) ==
    "pda:" \o program_id \o ":" \o JoinSeeds(seeds) \o ":" \o ToString(bump)

\* Seed lists, bumps and the metadata handed to Pda<T>.
SeedLists == { <<"counter">>, <<"counter", "user">> }

Bumps == {255, 254}

PdaMetas ==
    { [program_id |-> p, seeds |-> sd, bump |-> b] :
        p \in {ID, OTHER_ID}, sd \in SeedLists, b \in Bumps }

\* Addresses of the records handed to the wrappers.
WrapperAddresses ==
    { "user", "counter", SYSTEM_ID,
      derive_address(ID, <<"counter">>, 255),
      derive_address(ID, <<"counter", "user">>, 254),
      derive_address(OTHER_ID, <<"counter">>, 255) }

WrapperBuffers ==
    { <<>>, DISCRIMINATOR \o U64ToLeBytes(5), TEST_EVENT_DISCRIMINATOR \o U64ToLeBytes(5),
      DISCRIMINATOR \o U64ToLeBytes(5) \o <<0>> }

\* The records handed to the wrappers: every combination of address, owner,
\* flags, buffer, with no borrow or one immutable borrow live.
WrapperRecords ==
    { [address |-> a, owner |-> o, is_signer |-> sg, is_writable |-> w,
       data |-> d, borrow_state |-> bs] :
        a \in WrapperAddresses, o \in ProgramIds, sg \in BOOLEAN, w \in BOOLEAN,
        d \in WrapperBuffers, bs \in {NOT_BORROWED, borrow_data(NOT_BORROWED)} }

\* hayabusa_common::address_eq
address_eq(a, b) == a = b

\* The result of a construction: result code, the record afterwards, and the
\* steps taken on the record, in order.
Built(res, acc, steps) == [res |-> res, acc |-> acc, steps |-> steps]

\* CheckedAddress::try_from_account_view: InvalidAccount when
\* address_eq(account_view.address(), meta.addr), Ok otherwise.
CheckedAddress_try_from_account_view(account_view, meta) ==
    IF address_eq(account_view.address, meta.addr)
        THEN Built(InvalidAccount, account_view, <<>>)
        ELSE Built(Ok, account_view, <<>>)

\* CheckSeeds::check_pda_seeds: the address recomputed from the metadata must
\* be the record's address.
check_pda_seeds(address, meta) ==
    IF derive_address(meta.program_id, meta.seeds, meta.bump) # address
        THEN InvalidSeeds ELSE Ok

\* Variant of Pda::try_from_account_view that casts through the checked
\* decode and keeps the borrow it took.
Pda_try_from_account_view_borrowing(view, meta) ==
    LET account == try_deserialize_zc(view) IN
    IF account.res # Ok THEN Built(account.res, account.acc, <<>>)
    ELSE LET checked == check_pda_seeds(view.address, meta) IN
         IF checked # Ok
             THEN Built(checked, account.acc, <<"cast", "check_pda_seeds">>)
             ELSE Built(Ok, account.acc, <<"cast", "check_pda_seeds">>)

\* Variant of Pda::try_from_account_view that drops the result of
\* check_pda_seeds.
Pda_try_from_account_view_seeds_ignored(view, meta) ==
    LET account == try_deserialize_raw_unchecked(view) IN
    IF account.res # Ok THEN Built(account.res, account.acc, <<>>)
    ELSE Built(Ok, account.acc, <<"cast", "check_pda_seeds">>)

\* Pda::try_from_account_view: the unchecked zero-copy cast of the record
\* first, then check_pda_seeds on the cast value.
Pda_try_from_account_view(view, meta) ==
    LET account == try_deserialize_raw_unchecked(view) IN
    IF account.res # Ok THEN Built(account.res, account.acc, <<>>)
    ELSE LET checked == check_pda_seeds(view.address, meta) IN
         IF checked # Ok
             THEN Built(checked, account.acc, <<"cast", "check_pda_seeds">>)
             ELSE Built(Ok, account.acc, <<"cast", "check_pda_seeds">>)

\* SystemAccount::try_from_account_info: ErrorCode::InvalidAccount unless the
\* record is owned by the system program.
SystemAccount_try_from_account_info(account_info_) ==
    IF account_info_.owner # SYSTEM_ID
        THEN Built(InvalidAccount, account_info_, <<>>)
        ELSE Built(Ok, account_info_, <<>>)

\* UncheckedAccount::try_from_account_info
UncheckedAccount_try_from_account_info(account_info_) == Built(Ok, account_info_, <<>>)

\* CpiCtx::try_new for T with T::ID = T_ID. An Option is a sequence of at most
\* one element.
None == <<>>

Some(v) == <<v>>

\* Variant of CpiCtx::try_new that builds the context whatever the check says.
CpiCtx_try_new_unchecked(T_ID, program, accounts, signers) ==
    [res |-> Ok, ctx |-> [program |-> program, accounts |-> accounts, signers |-> signers]]

CpiCtx_try_new(T_ID, program, accounts, signers) ==
    LET checked == check_program_id(T_ID, program.address) IN
    IF checked # Ok THEN [res |-> checked, ctx |-> NoValue]
    ELSE [res |-> Ok,
          ctx |-> [program |-> program, accounts |-> accounts, signers |-> signers]]

\* CpiCtx::try_new_without_signer
CpiCtx_try_new_without_signer(T_ID, program, accounts) ==
    LET checked == check_program_id(T_ID, program.address) IN
    IF checked # Ok THEN [res |-> checked, ctx |-> NoValue]
    ELSE [res |-> Ok, ctx |-> [program |-> program, accounts |-> accounts, signers |-> None]]

\* Variant of CpiCtx::try_new_with_signer without the program-id check.
CpiCtx_try_new_with_signer_unchecked(T_ID, program, accounts, signers) ==
    [res |-> Ok,
     ctx |-> [program |-> program, accounts |-> accounts, signers |-> Some(signers)]]

\* CpiCtx::try_new_with_signer
CpiCtx_try_new_with_signer(T_ID, program, accounts, signers) ==
    LET checked == check_program_id(T_ID, program.address) IN
    IF checked # Ok THEN [res |-> checked, ctx |-> NoValue]
    ELSE [res |-> Ok,
          ctx |-> [program |-> program, accounts |-> accounts, signers |-> Some(signers)]]

\* Account structs handed to a CpiCtx and the signer lists.
CpiAccounts == {"CreateAccount", "Transfer"}

SignerLists == {None, Some(<<>>), Some(<<"vault_seeds">>)}

\* The wrappers Mut<X> is built around.
MutInners == {"Signer", "ZcAccount<CounterAccount>", "Program<System>"}

\* One construction on the record: the record and the history are updated from
\* its outcome.
WrapperCall(op, meta, out, built_ctx) ==
    /\ account_info' = out.acc
    /\ wlast' = [op |-> op, meta |-> meta, res |-> out.res, steps |-> out.steps,
                 pre |-> account_info, ctx |-> built_ctx]
    /\ UNCHANGED <<refs, ref_muts, zeroed, last, world, dlast, cursors>>
    /\ UNCHANGED ctx_vars

BuildSigner ==
    WrapperCall("Signer", NoMeta,
                Built(Signer_try_from_account_view(account_info), account_info, <<>>),
                NoValue)

BuildMut ==
    \E inner \in MutInners :
        WrapperCall("Mut", inner,
                    Built(Mut_try_from_account_view(inner, account_info), account_info, <<>>),
                    NoValue)

BuildProgram ==
    WrapperCall("Program", NoMeta,
                Built(Program_try_from_account_view(account_info), account_info, <<>>),
                NoValue)

BuildSystemAccount ==
    WrapperCall("SystemAccount", NoMeta,
                SystemAccount_try_from_account_info(account_info), NoValue)

BuildUncheckedAccount ==
    WrapperCall("UncheckedAccount", NoMeta,
                UncheckedAccount_try_from_account_info(account_info), NoValue)

BuildZcAccount ==
    WrapperCall("ZcAccount", NoMeta,
                Built(ZcAccount_try_from_account_view(account_info), account_info, <<>>),
                NoValue)

BuildCheckedAddress ==
    \E addr \in WrapperAddresses :
        WrapperCall("CheckedAddress", [addr |-> addr],
                    CheckedAddress_try_from_account_view(account_info, [addr |-> addr]),
                    NoValue)

BuildPda ==
    \E meta \in PdaMetas :
        WrapperCall("Pda", meta, Pda_try_from_account_view(account_info, meta), NoValue)

\* CpiCtx::<T>::try_new with the record as the program record.
CpiCtxTryNew ==
    \E T_ID \in {SYSTEM_ID, OTHER_ID}, accounts \in CpiAccounts, signers \in SignerLists :
        LET made == CpiCtx_try_new(T_ID, account_info, accounts, signers) IN
        WrapperCall("CpiCtx::try_new",
                    [T_ID |-> T_ID, accounts |-> accounts, signers |-> signers],
                    Built(made.res, account_info, <<>>), made.ctx)

\* CpiCtx::<T>::try_new_without_signer with the record as the program record.
CpiCtxTryNewWithoutSigner ==
    \E T_ID \in {SYSTEM_ID, OTHER_ID}, accounts \in CpiAccounts :
        LET made == CpiCtx_try_new_without_signer(T_ID, account_info, accounts) IN
        WrapperCall("CpiCtx::try_new_without_signer",
                    [T_ID |-> T_ID, accounts |-> accounts],
                    Built(made.res, account_info, <<>>), made.ctx)

\* CpiCtx::<T>::try_new_with_signer with the record as the program record.
CpiCtxTryNewWithSigner ==
    \E T_ID \in {SYSTEM_ID, OTHER_ID}, accounts \in CpiAccounts,
       signers \in {sl[1] : sl \in SignerLists \ {None}} :
        LET made == CpiCtx_try_new_with_signer(T_ID, account_info, accounts, signers) IN
        WrapperCall("CpiCtx::try_new_with_signer",
                    [T_ID |-> T_ID, accounts |-> accounts, signers |-> signers],
                    Built(made.res, account_info, <<>>), made.ctx)

InitAccounts ==
    /\ account_info \in WrapperRecords
    /\ refs = 0
    /\ ref_muts = 0
    /\ zeroed = FALSE
    /\ last = [NoCall EXCEPT !.pre = account_info]
    /\ InitCtxIdle

NextAccounts ==
    \/ BuildSigner
    \/ BuildMut
    \/ BuildProgram
    \/ BuildSystemAccount
    \/ BuildUncheckedAccount
    \/ BuildZcAccount
    \/ BuildCheckedAddress
    \/ BuildPda
    \/ CpiCtxTryNew
    \/ CpiCtxTryNewWithoutSigner
    \/ CpiCtxTryNewWithSigner

SpecAccounts == InitAccounts /\ [][NextAccounts]_vars

Built_(op) == wlast.op = op

----------------------------------------------------------------------------
(* Properties of the wrappers (SpecAccounts) *)

\* C11 as stated: CheckedAddress construction succeeds iff the record's
\* address equals the expected address of CheckedAddressMeta, and fails with
\* InvalidAccount for any other address.
C11_Original ==
    Built_("CheckedAddress") =>
        /\ (wlast.res = Ok) <=> (wlast.pre.address = wlast.meta.addr)
        /\ wlast.res # Ok => wlast.res = InvalidAccount

\* C12: Pda<T> construction succeeds only when the address recomputed from
\* the metadata seeds, the bump and the program id is the record's address;
\* with any other seed list, bump or program id on the same record it fails.
C12_PdaOnlyForReproducingTriple ==
    Built_("Pda") /\ wlast.res = Ok =>
        /\ derive_address(wlast.meta.program_id, wlast.meta.seeds, wlast.meta.bump)
               = wlast.pre.address
        /\ \A m \in PdaMetas :
               m # wlast.meta => Pda_try_from_account_view(wlast.pre, m).res # Ok

C12_Witness ==
    /\ Built_("Pda")
    /\ wlast.res = Ok
    /\ wlast.meta = [program_id |-> ID, seeds |-> <<"counter", "user">>, bump |-> 254]

\* C13 as stated: during Pda<T> construction the seed check runs strictly
\* before any zero-copy cast of the record's data.
C13_Original ==
    Built_("Pda") =>
        \A i \in 1..Len(wlast.steps) :
            wlast.steps[i] = "cast" =>
                \E j \in 1..(i - 1) : wlast.steps[j] = "check_pda_seeds"

\* C14: Signer construction succeeds iff the record's signer flag is true, and
\* fails with MissingRequiredSignature otherwise.
C14_SignerIffFlag ==
    Built_("Signer") =>
        /\ (wlast.res = Ok) <=> wlast.pre.is_signer
        /\ wlast.res # Ok => wlast.res = MissingRequiredSignature

C14_Witness ==
    /\ Built_("Signer")
    /\ ~wlast.pre.is_signer
    /\ wlast.pre.is_writable
    /\ wlast.res = MissingRequiredSignature

\* C15: Mut<X> construction succeeds iff the record's writable flag is true
\* and X's construction succeeds on the same record; in every other case it
\* fails with InvalidAccount.
C15_MutIffWritableAndInner ==
    Built_("Mut") =>
        /\ (wlast.res = Ok) <=>
               (wlast.pre.is_writable /\ Inner_try_from_account_view(wlast.meta, wlast.pre) = Ok)
        /\ wlast.res # Ok => wlast.res = InvalidAccount

C15_Witness ==
    /\ Built_("Mut")
    /\ wlast.meta = "Signer"
    /\ wlast.pre.is_writable
    /\ ~wlast.pre.is_signer
    /\ wlast.res = InvalidAccount

\* C16 as stated: SystemAccount / Program construction succeeds iff the
\* record's owner tag is the expected fixed program identifier, and fails with
\* InvalidAccountOwner otherwise.
C16_Original ==
    wlast.op \in {"SystemAccount", "Program"} =>
        /\ (wlast.res = Ok) <=> (wlast.pre.owner = SYSTEM_ID)
        /\ wlast.res # Ok => wlast.res = InvalidAccountOwner

\* C17: CpiCtx construction succeeds iff the program record's address is
\* T::ID; otherwise it fails with IncorrectProgramId and yields no context; on
\* success the context holds exactly the program record, the accounts struct
\* and the signer list given.
C17_CpiCtxChecksProgramId ==
    Built_("CpiCtx::try_new") =>
        /\ (wlast.res = Ok) <=> (wlast.pre.address = wlast.meta.T_ID)
        /\ wlast.res # Ok => wlast.res = IncorrectProgramId /\ wlast.ctx = NoValue
        /\ wlast.res = Ok =>
               wlast.ctx = [program |-> wlast.pre, accounts |-> wlast.meta.accounts,
                            signers |-> wlast.meta.signers]

C17_Witness ==
    /\ Built_("CpiCtx::try_new")
    /\ wlast.res = Ok
    /\ wlast.meta.signers = Some(<<"vault_seeds">>)

\* The result and the context of the last construction are those of `made`.
SameAsLast(made) ==
    /\ wlast.res = made.res
    /\ made.res = Ok => wlast.ctx = made.ctx
    /\ made.res # Ok => wlast.ctx = NoValue

\* C26: try_new_without_signer(p, a) gives the result of try_new(p, a, None),
\* and try_new_with_signer(p, a, s) that of try_new(p, a, Some(s)): the same
\* error, or a context with the same program, accounts and signers.
C26_ConvenienceFormsAgree ==
    /\ Built_("CpiCtx::try_new_without_signer") =>
           SameAsLast(CpiCtx_try_new(wlast.meta.T_ID, wlast.pre, wlast.meta.accounts, None))
    /\ Built_("CpiCtx::try_new_with_signer") =>
           SameAsLast(CpiCtx_try_new(wlast.meta.T_ID, wlast.pre, wlast.meta.accounts,
                                     Some(wlast.meta.signers)))

\* try_new_with_signer refused a record that is not the target program.
C26_Witness ==
    /\ Built_("CpiCtx::try_new_with_signer")
    /\ wlast.res = IncorrectProgramId
    /\ wlast.meta.signers = <<"vault_seeds">>

WrapperOps ==
    {"UncheckedAccount", "Signer", "SystemAccount", "Program", "CheckedAddress", "Mut",
     "Pda", "ZcAccount"}

\* C24: no wrapper construction, whether it succeeds or fails, changes the
\* record: its buffer, owner, address, flags and borrow state after the
\* construction are those before it.
C24_ConstructionLeavesRecord ==
    wlast.op \in WrapperOps => account_info = wlast.pre

\* A Pda built over a counter record that another view is reading, and the
\* record as it was.
C24_Witness ==
    /\ wlast.op = "Pda"
    /\ wlast.res = Ok
    /\ wlast.steps = <<"cast", "check_pda_seeds">>
    /\ wlast.pre.borrow_state # NOT_BORROWED
    /\ account_info = wlast.pre

----------------------------------------------------------------------------
(* Instruction parameter decode (derive(DecodeIx)): SpecDecode *)

InvalidInstructionData == "InvalidInstructionData"
UnknownInstruction     == "UnknownInstruction"

\* A parameter record is the list of its fields in declared order: a field of
\* fixed size (size_of of its type), the borrowed byte slice &'ix [u8], or a
\* PhantomData, which takes no bytes.
Fixed(name, size) == [name |-> name, kind |-> "fixed", size |-> size]
ByteSlice(name)   == [name |-> name, kind |-> "slice", size |-> 0]
Phantom(name)     == [name |-> name, kind |-> "phantom", size |-> 0]

\* The parameter records of the counter program (expanded.rs) and of the
\* DecodeIx documentation, and two further layouts.
InitializeCounterIx == <<>>
UpdateCounterIx     == << Fixed("amount", 8), ByteSlice("_s") >>
TransferIx          == << Fixed("amount", 8) >>
TaggedAmountIx      == << Fixed("tag", 1), Phantom("_p"), Fixed("amount", 8) >>
FramedIx            == << Fixed("tag", 1), ByteSlice("data"), Fixed("amount", 8) >>

IxLayouts == {InitializeCounterIx, UpdateCounterIx, TransferIx, TaggedAmountIx, FramedIx}

RECURSIVE fixed_total(_)
\* The sum of the sizes pushed to fixed_sizes: the fields that are neither
\* PhantomData nor the slice.
fixed_total(fields) ==
    IF fields = <<>> THEN 0
    ELSE (IF Head(fields).kind = "fixed" THEN Head(fields).size ELSE 0)
         + fixed_total(Tail(fields))

has_slice_field(fields) == \E i \in 1..Len(fields) : fields[i].kind = "slice"

RECURSIVE decode_stmts(_, _, _, _)
\* The generated statements: each field in declared order is read at __off,
\* which then advances by what the field took. A decoded field is its name, the
\* offset it was read at and its bytes.
decode_stmts(fields, bytes, off, total) ==
    IF fields = <<>> THEN <<>>
    ELSE LET f == Head(fields)
             took == CASE f.kind = "fixed"   -> f.size
                       [] f.kind = "phantom" -> 0
                       [] f.kind = "slice"   -> Len(bytes) - total
         IN  << [name |-> f.name, off |-> off,
                 bytes |-> SubSeq(bytes, off + 1, off + took)] >>
             \o decode_stmts(Tail(fields), bytes, off + took, total)

\* Variant of the generated decode whose length check of a record with a
\* slice also rejects a remainder of exactly the fixed total.
DecodeIx_decode_nonempty_slice(fields, bytes) ==
    IF has_slice_field(fields) /\ Len(bytes) <= fixed_total(fields)
        THEN [res |-> InvalidInstructionData, ix |-> <<>>]
    ELSE IF ~has_slice_field(fields) /\ Len(bytes) # fixed_total(fields)
        THEN [res |-> InvalidInstructionData, ix |-> <<>>]
    ELSE [res |-> Ok, ix |-> decode_stmts(fields, bytes, 0, fixed_total(fields))]

\* Variant of the generated decode whose length check of a record without a
\* slice only rejects a remainder that is too short.
DecodeIx_decode_at_least(fields, bytes) ==
    IF Len(bytes) < fixed_total(fields)
        THEN [res |-> InvalidInstructionData, ix |-> <<>>]
        ELSE [res |-> Ok,
              ix |-> decode_stmts(fields,
                                  IF has_slice_field(fields) THEN bytes
                                  ELSE SubSeq(bytes, 1, fixed_total(fields)),
                                  0, fixed_total(fields))]

\* DecodeIx::decode as generated by expand_decode_ix: the length check (>= the
\* fixed total with a slice field, == without), then the fields.
DecodeIx_decode(fields, bytes) ==
    IF has_slice_field(fields) /\ Len(bytes) < fixed_total(fields)
        THEN [res |-> InvalidInstructionData, ix |-> <<>>]
    ELSE IF ~has_slice_field(fields) /\ Len(bytes) # fixed_total(fields)
        THEN [res |-> InvalidInstructionData, ix |-> <<>>]
    ELSE [res |-> Ok, ix |-> decode_stmts(fields, bytes, 0, fixed_total(fields))]

\* Longest remainder handed to decode.
MaxRemainder == 11

\* The remainders handed to decode: every prefix of three byte patterns.
RemainderPatterns ==
    { <<5, 1, 0, 0, 0, 0, 0, 0, 0, 9, 7, 3, 2>>, <<3, 0, 0, 0, 0, 0, 0, 0, 8, 0, 0, 1, 4>>,
      <<0, 2, 0, 0, 0, 0, 0, 0, 1, 6, 6, 6, 6>> }

Remainders ==
    { Take(pat, n) : pat \in RemainderPatterns, n \in 0..MaxRemainder }

\* One decode of a remainder as a parameter record.
Decode ==
    /\ \E fields \in IxLayouts, bytes \in Remainders :
        LET out == DecodeIx_decode(fields, bytes) IN
        dlast' = [op |-> "decode", fields |-> fields, bytes |-> bytes,
                  res |-> out.res, ix |-> out.ix, n |-> 0,
                  created |-> FALSE, total |-> 0]
    /\ UNCHANGED <<wlast, world, cursors>>
    /\ UNCHANGED zc_vars
    /\ UNCHANGED ctx_vars

InitDecode ==
    /\ InitZcIdle
    /\ InitCtxIdle

NextDecode == Decode

SpecDecode == InitDecode /\ [][NextDecode]_vars

ExpectedOffset(i) ==
    LET before == SubSeq(dlast.fields, 1, i - 1)
        sizes  == [k \in 1..Len(before) |->
                     IF before[k].kind = "fixed" THEN before[k].size
                     ELSE IF before[k].kind = "slice"
                         THEN Len(dlast.bytes) - fixed_total(dlast.fields)
                     ELSE 0]
        sum[k \in 0..Len(before)] == IF k = 0 THEN 0 ELSE sum[k - 1] + sizes[k]
    IN  sum[Len(before)]

\* C21: for a parameter record with one variable-length byte field, decode
\* accepts every remainder of length >= the fixed total and rejects a shorter
\* one with InvalidInstructionData; the variable-length field receives exactly
\* length - fixed total bytes from the offset reached after the fields before
\* it, and the fixed fields are read in declared order at increasing offsets.
C21_SliceTakesTheRest ==
    dlast.op = "decode" /\ has_slice_field(dlast.fields) =>
        LET fields == dlast.fields
            bytes  == dlast.bytes
            total  == fixed_total(fields)
        IN  /\ (dlast.res = Ok) <=> (Len(bytes) >= total)
            /\ dlast.res # Ok => dlast.res = InvalidInstructionData /\ dlast.ix = <<>>
            /\ dlast.res = Ok =>
                /\ Len(dlast.ix) = Len(fields)
                /\ \A i \in 1..Len(fields) :
                    LET took == IF fields[i].kind = "slice" THEN Len(bytes) - total
                                ELSE fields[i].size
                    IN  /\ dlast.ix[i].name = fields[i].name
                        /\ dlast.ix[i].off = ExpectedOffset(i)
                        /\ Len(dlast.ix[i].bytes) = took
                        /\ \A k \in 1..took :
                               dlast.ix[i].bytes[k] = bytes[ExpectedOffset(i) + k]
                /\ \A i, j \in 1..Len(fields) :
                       i < j /\ fields[i].kind = "fixed" /\ fields[j].kind = "fixed"
                           => dlast.ix[i].off < dlast.ix[j].off

\* A record whose slice stands between two fixed fields, with a remainder
\* two bytes longer than the fixed total.
C21_Witness ==
    /\ dlast.op = "decode"
    /\ dlast.fields = FramedIx
    /\ dlast.res = Ok
    /\ Len(dlast.bytes) = 11
    /\ dlast.ix[2].bytes = <<1, 0>>
    /\ dlast.ix[3].off = 3

----------------------------------------------------------------------------
(* Instruction dispatch of the counter program: SpecDispatch *)

\* Discriminator::DISCRIMINATOR of the instruction records.
UPDATE_COUNTER_DISCRIMINATOR     == <<18, 183, 6, 47, 227, 170, 61, 195>>
INITIALIZE_COUNTER_DISCRIMINATOR == <<189, 111, 34, 122, 19, 245, 243, 42>>

\* The handler table of the generated dispatcher, in registration order.
DispatcherTable ==
    << [discriminator |-> UPDATE_COUNTER_DISCRIMINATOR, layout |-> UpdateCounterIx,
        accounts |-> UpdateCounter, handler |-> "update_counter"],
       [discriminator |-> INITIALIZE_COUNTER_DISCRIMINATOR, layout |-> InitializeCounterIx,
        accounts |-> InitializeCounter, handler |-> "initialize_counter"] >>

\* The handler table handed to dispatch! by the program's entrypoint:
\* UpdateCounterInstruction { amount: u64 } and InitializeCounterInstruction {},
\* both Pod, with their size and alignment.
DispatchTable ==
    << [discriminator |-> UPDATE_COUNTER_DISCRIMINATOR, layout |-> TransferIx,
        size |-> 8, align |-> 8,
        accounts |-> UpdateCounter, handler |-> "update_counter"],
       [discriminator |-> INITIALIZE_COUNTER_DISCRIMINATOR, layout |-> InitializeCounterIx,
        size |-> 0, align |-> 1,
        accounts |-> InitializeCounter, handler |-> "initialize_counter"] >>

\* The records of an invocation, by address, and the account references of
\* its account list: address and the per-invocation flags.
USER_REF           == [address |-> "user", is_signer |-> TRUE, is_writable |-> TRUE]
COUNTER_REF        == [address |-> "counter", is_signer |-> FALSE, is_writable |-> TRUE]
SYSTEM_PROGRAM_REF == [address |-> SYSTEM_ID, is_signer |-> FALSE, is_writable |-> FALSE]

\* Another wallet of the invocation, read-only and not a signer.
OTHER_REF          == [address |-> "other", is_signer |-> FALSE, is_writable |-> FALSE]

AccountRefs == {USER_REF, COUNTER_REF, SYSTEM_PROGRAM_REF, OTHER_REF}

\* The AccountView of a reference: the record's owner with the flags.
ViewOf(w, ref) ==
    [address |-> ref.address, owner |-> w[ref.address].owner,
     is_signer |-> ref.is_signer, is_writable |-> ref.is_writable]

ViewsOf(w, refs_) == [i \in 1..Len(refs_) |-> ViewOf(w, refs_[i])]

\* The outcome of a handler or of a dispatch: result, records afterwards, the
\* steps taken in order, and the handler called (NoValue when none).
Dispatched(res, w, steps, handler) ==
    [res |-> res, world |-> w, steps |-> steps, handler |-> handler]

\* Variant of update_counter that stores the amount as the new count.
update_counter_assign(w, ctx_, amount) ==
    LET at  == ctx_.accounts[2].view.address
        out == try_deserialize_zc_mut(w[at])
    IN  IF out.res # Ok THEN [res |-> out.res, world |-> [w EXCEPT ![at] = out.acc]]
        ELSE LET written == write_count(out.acc, amount) IN
             [res |-> Ok,
              world |-> [w EXCEPT ![at] = [written EXCEPT !.borrow_state = drop_ref_mut(@)]]]

\* Variant of update_counter that adds the amount to the eight bytes after
\* the tag before the record is decoded.
update_counter_write_first(w, ctx_, amount) ==
    LET at      == ctx_.accounts[2].view.address
        written == IF Len(w[at].data) >= DISCRIMINATED_LEN
                       THEN write_count(w[at],
                                U64FromLeBytes(SubSeq(w[at].data, 9, DISCRIMINATED_LEN))
                                    + amount)
                       ELSE w[at]
        out     == try_deserialize_zc_mut(written)
    IN  IF out.res # Ok THEN [res |-> out.res, world |-> [w EXCEPT ![at] = out.acc]]
        ELSE [res |-> Ok,
              world |-> [w EXCEPT ![at] = [out.acc EXCEPT !.borrow_state = drop_ref_mut(@)]]]

\* update_counter: mutable checked decode of ctx.counter, count += amount, and
\* the RefMut goes out of scope. Counts stay far below 2^64 in this model.
update_counter(w, ctx_, amount) ==
    LET at  == ctx_.accounts[2].view.address
        out == try_deserialize_zc_mut(w[at])
    IN  IF out.res # Ok THEN [res |-> out.res, world |-> [w EXCEPT ![at] = out.acc]]
        ELSE LET written == write_count(out.acc, out.value.count + amount) IN
             [res |-> Ok,
              world |-> [w EXCEPT ![at] = [written EXCEPT !.borrow_state = drop_ref_mut(@)]]]

\* initialize_counter: ctx.counter.try_initialize(InitAccounts::new(&ID, user,
\* system_program), None); the returned RefMut is dropped at once.
initialize_counter(w, ctx_) ==
    LET at  == ctx_.accounts[2].view.address
        out == try_initialize_zc(w[at], ID, ctx_.accounts[3].view.address)
    IN  IF out.res # Ok THEN [res |-> out.res, world |-> [w EXCEPT ![at] = out.acc]]
        ELSE [res |-> Ok,
              world |-> [w EXCEPT ![at] = [out.acc EXCEPT !.borrow_state = drop_ref_mut(@)]]]

\* The call of the matched arm's handler with the decoded parameters.
call_handler(handler, w, ctx_, ix) ==
    CASE handler = "update_counter" -> update_counter(w, ctx_, U64FromLeBytes(ix[1].bytes))
      [] handler = "initialize_counter" -> initialize_counter(w, ctx_)

\* The index of the first table entry whose discriminator is `disc`, 0 when
\* there is none.
first_match(table, disc) ==
    LET hits == { i \in 1..Len(table) : table[i].discriminator = disc }
    IN  IF hits = {} THEN 0 ELSE CHOOSE i \in hits : \A j \in hits : i <= j

\* The rest of a matched arm: Ctx::construct(views)? and the handler call.
construct_and_call(entry, ix, w, refs_, steps) ==
    LET built == Ctx_construct(entry.accounts, ViewsOf(w, refs_)) IN
    IF built.res # Ok
        THEN Dispatched(built.res, w, steps \o <<"construct">>, NoValue)
        ELSE LET ran == call_handler(entry.handler, w, built, ix) IN
             Dispatched(ran.res, ran.world, steps \o <<"construct", "handler">>,
                        entry.handler)

\* bytemuck::try_from_bytes::<IxTy>(rest): the length must be size_of::<IxTy>()
\* and the slice aligned for IxTy; `aligned` says whether rest is.
try_from_bytes(entry, rest, aligned) ==
    IF Len(rest) # entry.size THEN [res |-> InvalidInstructionData, ix |-> <<>>]
    ELSE IF entry.align > 1 /\ ~aligned THEN [res |-> InvalidInstructionData, ix |-> <<>>]
    ELSE [res |-> Ok, ix |-> decode_stmts(entry.layout, rest, 0, entry.size)]

DISC_LEN == 8

\* dispatch!($ix_data, $accounts, table): UnknownInstruction for a payload
\* shorter than DISC_LEN; the first arm whose discriminator is the prefix
\* decodes the rest, constructs the context and calls its handler;
\* UnknownInstruction when no arm matches.
dispatch(ix_data, refs_, w, aligned) ==
    IF Len(ix_data) < DISC_LEN THEN Dispatched(UnknownInstruction, w, <<>>, NoValue)
    ELSE LET disc == SubSeq(ix_data, 1, DISC_LEN)
             rest == SubSeq(ix_data, DISC_LEN + 1, Len(ix_data))
             arm  == first_match(DispatchTable, disc)
         IN  IF arm = 0 THEN Dispatched(UnknownInstruction, w, <<>>, NoValue)
             ELSE LET entry == DispatchTable[arm]
                      ix == try_from_bytes(entry, rest, aligned)
                  IN  IF ix.res # Ok
                          THEN Dispatched(InvalidInstructionData, w,
                                          <<"match", "decode">>, NoValue)
                          ELSE construct_and_call(entry, ix.ix, w, refs_,
                                                  <<"match", "decode">>)

\* Variant of the generated dispatcher whose arms construct the context before
\* they decode the parameters.
dispatcher_construct_first(program_id, refs_, ix_data, w) ==
    IF program_id # ID THEN Dispatched(IncorrectProgramId, w, <<>>, NoValue)
    ELSE IF Len(ix_data) < DISC_LEN
        THEN Dispatched(InvalidInstructionData, w, <<>>, NoValue)
    ELSE LET disc == SubSeq(ix_data, 1, DISC_LEN)
             rest == SubSeq(ix_data, DISC_LEN + 1, Len(ix_data))
             arm  == first_match(DispatcherTable, disc)
         IN  IF arm = 0 THEN Dispatched(UnknownInstruction, w, <<>>, NoValue)
             ELSE LET entry == DispatcherTable[arm]
                      built == Ctx_construct(entry.accounts, ViewsOf(w, refs_))
                      ix    == DecodeIx_decode(entry.layout, rest)
                  IN  IF built.res # Ok
                          THEN Dispatched(built.res, w, <<"match", "construct">>, NoValue)
                      ELSE IF ix.res # Ok
                          THEN Dispatched(InvalidInstructionData, w,
                                          <<"match", "construct", "decode">>, NoValue)
                      ELSE LET ran == call_handler(entry.handler, w, built, ix.ix) IN
                           Dispatched(ran.res, ran.world,
                                      <<"match", "construct", "decode", "handler">>,
                                      entry.handler)

\* Variant of the generated dispatcher that compares only the first seven
\* bytes of the prefix with the registered discriminators.
dispatcher_prefix7(program_id, refs_, ix_data, w) ==
    IF program_id # ID THEN Dispatched(IncorrectProgramId, w, <<>>, NoValue)
    ELSE IF Len(ix_data) < DISC_LEN
        THEN Dispatched(InvalidInstructionData, w, <<>>, NoValue)
    ELSE LET disc == SubSeq(ix_data, 1, DISC_LEN)
             rest == SubSeq(ix_data, DISC_LEN + 1, Len(ix_data))
             hits == { i \in 1..Len(DispatcherTable) :
                         SubSeq(DispatcherTable[i].discriminator, 1, 7) = SubSeq(disc, 1, 7) }
             arm  == IF hits = {} THEN 0 ELSE CHOOSE i \in hits : \A j \in hits : i <= j
         IN  IF arm = 0 THEN Dispatched(UnknownInstruction, w, <<>>, NoValue)
             ELSE LET entry == DispatcherTable[arm]
                      ix == DecodeIx_decode(entry.layout, rest)
                  IN  IF ix.res # Ok
                          THEN Dispatched(InvalidInstructionData, w,
                                          <<"match", "decode">>, NoValue)
                          ELSE construct_and_call(entry, ix.ix, w, refs_,
                                                  <<"match", "decode">>)

\* dispatcher(program_id, views, ix_data) of the counter program as expanded:
\* IncorrectProgramId unless program_id is crate::ID; InvalidInstructionData
\* for a payload shorter than DISC_LEN; then the match on the prefix, with
\* DecodeIx::decode, Ctx::construct and the handler in the matched arm, and
\* UnknownInstruction in the default arm.
dispatcher(program_id, refs_, ix_data, w) ==
    IF program_id # ID THEN Dispatched(IncorrectProgramId, w, <<>>, NoValue)
    ELSE IF Len(ix_data) < DISC_LEN
        THEN Dispatched(InvalidInstructionData, w, <<>>, NoValue)
    ELSE LET disc == SubSeq(ix_data, 1, DISC_LEN)
             rest == SubSeq(ix_data, DISC_LEN + 1, Len(ix_data))
             arm  == first_match(DispatcherTable, disc)
         IN  IF arm = 0 THEN Dispatched(UnknownInstruction, w, <<>>, NoValue)
             ELSE LET entry == DispatcherTable[arm]
                      ix == DecodeIx_decode(entry.layout, rest)
                  IN  IF ix.res # Ok
                          THEN Dispatched(InvalidInstructionData, w,
                                          <<"match", "decode">>, NoValue)
                          ELSE construct_and_call(entry, ix.ix, w, refs_,
                                                  <<"match", "decode">>)

\* Payloads: the prefixes of a discriminator shorter than DISC_LEN, and the
\* discriminators of the table and one that differs from a registered one in
\* its last byte only, each followed by a remainder.
NEAR_UPDATE_COUNTER_DISCRIMINATOR == <<18, 183, 6, 47, 227, 170, 61, 196>>

ShortLens == {0, 7}

PayloadRemainders ==
    { <<>>, U64ToLeBytes(3), U64ToLeBytes(5), U64ToLeBytes(5) \o <<9>> }

Payloads ==
    { Take(UPDATE_COUNTER_DISCRIMINATOR, n) : n \in ShortLens }
    \cup { d \o r : d \in {UPDATE_COUNTER_DISCRIMINATOR, INITIALIZE_COUNTER_DISCRIMINATOR,
                          NEAR_UPDATE_COUNTER_DISCRIMINATOR},
                    r \in PayloadRemainders }

\* Longest account list of an invocation, and the number of instructions
\* dispatched in one behaviour.
MaxDispatchAccounts == 3

MaxDispatches == 3

\* The account lists of an invocation: each record at most once, in any order.
AccountRefLists ==
    { l \in UNION { [1..n -> AccountRefs] : n \in 0..MaxDispatchAccounts } :
        \A i, j \in 1..Len(l) : l[i] = l[j] => i = j }

NATIVE_LOADER_ID == "NativeLoader1111111111111111111111111111111"

\* The counter record before the first instruction: not created yet, created
\* with count 0, holding another type's tag, or one byte short.
InitialCounterRecords ==
    { [owner |-> SYSTEM_ID, data |-> <<>>, borrow_state |-> NOT_BORROWED],
      [owner |-> ID, data |-> Take(DISCRIMINATOR \o U64ToLeBytes(0), DISCRIMINATED_LEN - 1),
       borrow_state |-> NOT_BORROWED],
      [owner |-> ID, data |-> DISCRIMINATOR \o U64ToLeBytes(0), borrow_state |-> NOT_BORROWED],
      [owner |-> ID, data |-> TEST_EVENT_DISCRIMINATOR \o U64ToLeBytes(0),
       borrow_state |-> NOT_BORROWED] }

\* The owner tag the host gives the system program's record is not fixed by
\* this repository: the native loader, or the system program's own id.
SystemProgramOwners == {NATIVE_LOADER_ID, SYSTEM_ID}

InitialWorlds ==
    { [a \in {"user", "other", "counter", SYSTEM_ID} |->
         CASE a \in {"user", "other"} ->
                  [owner |-> SYSTEM_ID, data |-> <<>>, borrow_state |-> NOT_BORROWED]
           [] a = "counter" -> c
           [] a = SYSTEM_ID -> [owner |-> o, data |-> <<>>,
                                borrow_state |-> NOT_BORROWED]] :
        c \in InitialCounterRecords, o \in SystemProgramOwners }

\* One instruction handed to an entrypoint: the records and the history are
\* updated from the outcome. The history also keeps whether an initialize
\* instruction has succeeded, and the sum of the amounts (bytes 8..16 of the
\* payload) of the update instructions that have succeeded.
DispatchCall(op, program_id, ix_data, aligned, out) ==
    /\ dlast.op \in {"none", "dispatch!", "dispatcher"}
    /\ world' = out.world
    /\ dlast' = [op |-> op, program_id |-> program_id, ix_data |-> ix_data,
                 aligned |-> aligned, res |-> out.res, steps |-> out.steps,
                 handler |-> out.handler, pre_world |-> world,
                 n |-> dlast.n + 1,
                 created |-> dlast.created
                             \/ (out.res = Ok /\ Len(ix_data) >= DISC_LEN
                                 /\ Take(ix_data, DISC_LEN) = INITIALIZE_COUNTER_DISCRIMINATOR),
                 total |-> dlast.total
                           + (IF out.res = Ok /\ Len(ix_data) >= DISC_LEN + 8
                                  /\ Take(ix_data, DISC_LEN) = UPDATE_COUNTER_DISCRIMINATOR
                              THEN U64FromLeBytes(SubSeq(ix_data, DISC_LEN + 1, DISC_LEN + 8))
                              ELSE 0)]
    /\ UNCHANGED <<wlast, cursors>>
    /\ UNCHANGED zc_vars
    /\ UNCHANGED ctx_vars

DispatchesLeft == dlast.n < MaxDispatches

\* dispatch! of instruction-dispatch-macro, applied to the counter program's
\* handler table.
Dispatch ==
    /\ DispatchesLeft
    /\ \E ix_data \in Payloads, aligned \in BOOLEAN :
        DispatchCall("dispatch!", ID, ix_data, aligned,
                     dispatch(ix_data, account_views, world, aligned))

\* The generated dispatcher.
Dispatcher ==
    /\ DispatchesLeft
    /\ \E program_id \in {ID, OTHER_ID}, ix_data \in Payloads :
        DispatchCall("dispatcher", program_id, ix_data, TRUE,
                     dispatcher(program_id, account_views, ix_data, world))

InitDispatch ==
    /\ InitZcIdle
    /\ account_views \in AccountRefLists
    /\ iter = AccountIter_new(Slice(0, 0))
    /\ returned = <<>>
    /\ calls = 0
    /\ clast = [NoCursorCall EXCEPT !.pre = iter]
    /\ ctx = NoCtx
    /\ wlast = NoWrapperCall
    /\ world \in InitialWorlds
    /\ dlast = NoDispatch
    /\ cursors = <<>>

NextDispatch ==
    \/ Dispatch
    \/ Dispatcher

SpecDispatch == InitDispatch /\ [][NextDispatch]_vars

\* C18 as stated: dispatch fails with UnknownInstruction for every payload
\* shorter than 8 bytes, without constructing a context or calling a handler.
C18_Original ==
    dlast.op \in {"dispatch!", "dispatcher"} /\ Len(dlast.ix_data) < 8 =>
        /\ dlast.res = UnknownInstruction
        /\ \A i \in 1..Len(dlast.steps) : dlast.steps[i] \notin {"construct", "handler"}

DispatchOps == {"dispatch!", "dispatcher"}

\* The handlers registered under the 8-byte prefix of the last payload, in
\* registration order.
RegisteredFor(prefix) ==
    LET table == IF dlast.op = "dispatch!" THEN DispatchTable ELSE DispatcherTable
    IN  SelectSeq([i \in 1..Len(table) |-> table[i].handler],
                  LAMBDA h : \E i \in 1..Len(table) :
                      table[i].handler = h /\ table[i].discriminator = prefix)

\* The routing of the last dispatch: with no handler registered under the
\* prefix, UnknownInstruction and no step taken; otherwise the arm of the first
\* such handler is taken and no other handler is called.
RoutedByPrefix ==
    LET registered == RegisteredFor(SubSeq(dlast.ix_data, 1, 8)) IN
    IF registered = <<>>
        THEN dlast.res = UnknownInstruction /\ dlast.steps = <<>> /\ dlast.handler = NoValue
        ELSE /\ dlast.steps # <<>>
             /\ dlast.steps[1] = "match"
             /\ dlast.handler \in {NoValue, Head(registered)}
             /\ dlast.handler = Head(registered) <=>
                    \E i \in 1..Len(dlast.steps) : dlast.steps[i] = "handler"
             /\ dlast.res = Ok => dlast.handler = Head(registered)

\* C19 as stated: for a payload of at least 8 bytes, dispatch routes to the
\* first registered handler whose discriminator is the 8-byte prefix and to no
\* other; with no such handler it fails with UnknownInstruction and no handler
\* runs.
C19_Original ==
    dlast.op \in DispatchOps /\ Len(dlast.ix_data) >= 8 => RoutedByPrefix

\* C19, amended: the same, for a dispatch whose program id is the program's
\* declared id; the generated dispatcher fails with IncorrectProgramId before
\* it looks at the payload otherwise, and no handler runs.
C19_RoutesFirstExactMatch ==
    dlast.op \in DispatchOps /\ Len(dlast.ix_data) >= 8 =>
        IF dlast.program_id = ID
            THEN RoutedByPrefix
            ELSE dlast.res = IncorrectProgramId /\ dlast.steps = <<>>
                 /\ dlast.handler = NoValue

C19_Witness ==
    /\ dlast.op = "dispatcher"
    /\ dlast.program_id = ID
    /\ Len(dlast.ix_data) >= 8
    /\ SubSeq(dlast.ix_data, 1, 8) = UPDATE_COUNTER_DISCRIMINATOR
    /\ dlast.handler = "update_counter"
    /\ dlast.res = Ok
    /\ world # dlast.pre_world

\* C22: validation before mutation. A dispatched instruction that fails any
\* check (payload decode, cursor exhaustion, wrapper predicates, the owner,
\* length and discriminator checks of a decode, the program-id check of the
\* nested call) returns that failure with every record's buffer and owner as
\* they were before the instruction.
C22_FailureLeavesRecordsUnchanged ==
    dlast.op \in DispatchOps /\ dlast.res # Ok =>
        /\ DOMAIN world = DOMAIN dlast.pre_world
        /\ \A a \in DOMAIN world :
               /\ world[a].data = dlast.pre_world[a].data
               /\ world[a].owner = dlast.pre_world[a].owner

\* A handler that ran and failed in its decode: update_counter on a record of
\* the right owner and length holding another type's tag.
C22_Witness ==
    /\ dlast.op \in DispatchOps
    /\ dlast.handler = "update_counter"
    /\ dlast.res = InvalidAccountData
    /\ Len(dlast.pre_world["counter"].data) = DISCRIMINATED_LEN
    /\ world = dlast.pre_world

\* The count a checked decode of the counter record yields.
DecodedCount(acc) == try_deserialize_zc(acc).value.count

\* C23: counter end to end. An initialize instruction that succeeds was given
\* an empty record and leaves a 16-byte buffer owned by the program, whose
\* checked decode yields count 0; and after the update instructions that have
\* succeeded, with amounts a1..an, on a counter that started at 0, the decoded
\* count is a1 + ... + an.
C23_CounterEndToEnd ==
    dlast.op \in DispatchOps =>
        /\ dlast.res = Ok /\ dlast.handler = "initialize_counter" =>
               /\ dlast.pre_world["counter"].data = <<>>
               /\ Len(world["counter"].data) = 16
               /\ world["counter"].owner = ID
               /\ try_deserialize_zc(world["counter"]).res = Ok
               /\ DecodedCount(world["counter"]) = 0
        /\ dlast.res = Ok /\ dlast.handler = "update_counter" =>
               DecodedCount(world["counter"])
                   = DecodedCount(dlast.pre_world["counter"])
                     + U64FromLeBytes(SubSeq(dlast.ix_data, 9, 16))
        /\ try_deserialize_zc(world["counter"]).res = Ok =>
               DecodedCount(world["counter"]) = dlast.total

\* Initialize on the empty record, then increment by 5, then by 3: count 8.
C23_Witness ==
    /\ dlast.op \in DispatchOps
    /\ dlast.created
    /\ dlast.res = Ok
    /\ dlast.handler = "update_counter"
    /\ DecodedCount(dlast.pre_world["counter"]) = 5
    /\ U64FromLeBytes(SubSeq(dlast.ix_data, 9, 16)) = 3
    /\ DecodedCount(world["counter"]) = 8

DispatchSteps == <<"match", "decode", "construct", "handler">>

\* The last payload has a registered prefix and a remainder of the wrong
\* length for the parameter record registered under it.
MalformedParameters ==
    /\ Len(dlast.ix_data) >= 8
    /\ LET prefix == SubSeq(dlast.ix_data, 1, 8)
           len    == Len(dlast.ix_data) - 8
       IN  \/ prefix = INITIALIZE_COUNTER_DISCRIMINATOR /\ len # 0
           \/ prefix = UPDATE_COUNTER_DISCRIMINATOR
                /\ (IF dlast.op = "dispatcher" THEN len < 8 ELSE len # 8)

\* The account list of the last dispatch builds the account struct of the
\* handler registered under the payload's prefix.
AccountListValid ==
    /\ RegisteredFor(SubSeq(dlast.ix_data, 1, 8)) # <<>>
    /\ Ctx_construct(IF Head(RegisteredFor(SubSeq(dlast.ix_data, 1, 8))) = "update_counter"
                         THEN UpdateCounter ELSE InitializeCounter,
                     ViewsOf(dlast.pre_world, account_views)).res = Ok

\* The order of the steps of the last dispatch: a prefix of match, decode,
\* construct, handler; a malformed payload stops after decode with
\* InvalidInstructionData and the records untouched, whatever the account
\* list; the handler has run only after decode and construct succeeded.
StepsInOrder ==
    /\ Len(dlast.steps) <= 4
    /\ dlast.steps = SubSeq(DispatchSteps, 1, Len(dlast.steps))
    /\ MalformedParameters =>
           /\ dlast.res = InvalidInstructionData
           /\ dlast.steps = <<"match", "decode">>
           /\ world = dlast.pre_world
    /\ dlast.steps = <<"match", "decode">> => dlast.res = InvalidInstructionData
    /\ dlast.steps = <<"match", "decode", "construct">> =>
           dlast.res # Ok /\ ~AccountListValid /\ world = dlast.pre_world
    /\ (dlast.handler # NoValue) <=> (dlast.steps = DispatchSteps)
    /\ dlast.handler # NoValue => ~MalformedParameters /\ AccountListValid

\* C27 as stated: within one dispatch the steps are discriminator match,
\* parameter decode, context construction, handler call, each only after the
\* one before succeeded; malformed parameters fail with InvalidInstructionData
\* without consuming an account even when the account list is invalid too.
C27_Original ==
    dlast.op \in DispatchOps => StepsInOrder

\* C27, amended: the same, for a dispatch whose program id is the program's
\* declared id; otherwise the generated dispatcher fails with
\* IncorrectProgramId before any of the steps, malformed parameters or not.
C27_StepsInOrder ==
    dlast.op \in DispatchOps =>
        IF dlast.program_id = ID
            THEN StepsInOrder
            ELSE dlast.res = IncorrectProgramId /\ dlast.steps = <<>>
                 /\ dlast.handler = NoValue /\ world = dlast.pre_world

\* Malformed parameters together with an account list that does not build the
\* handler's account struct.
C27_Witness ==
    /\ dlast.op = "dispatcher"
    /\ dlast.program_id = ID
    /\ MalformedParameters
    /\ ~AccountListValid
    /\ dlast.res = InvalidInstructionData

\* The last dispatch was an update instruction with well-formed parameters,
\* the declared program id and the account list user, counter.
UpdateOnUserAndCounter ==
    /\ dlast.op \in DispatchOps
    /\ dlast.program_id = ID
    /\ Len(dlast.ix_data) >= 16
    /\ SubSeq(dlast.ix_data, 1, 8) = UPDATE_COUNTER_DISCRIMINATOR
    /\ (dlast.op = "dispatch!" => Len(dlast.ix_data) = 16 /\ dlast.aligned)
    /\ Len(account_views) >= 2
    /\ account_views[1] = USER_REF
    /\ account_views[2] = COUNTER_REF

\* C29: constructing ZcAccount<T> validates nothing. Ctx::construct succeeds
\* and the handler is entered whatever the counter record's owner, length and
\* tag are; a record with a wrong owner, length or tag is turned away by the
\* handler's first decode, with InvalidAccountOwner or InvalidAccountData, and
\* nothing has been written.
C29_ZcAccountValidatesNothing ==
    UpdateOnUserAndCounter =>
        LET pre == dlast.pre_world["counter"] IN
        /\ dlast.steps = <<"match", "decode", "construct", "handler">>
        /\ dlast.handler = "update_counter"
        /\ dlast.res = (IF pre.owner # ID THEN InvalidAccountOwner
                        ELSE IF Len(pre.data) # 16 THEN InvalidAccountData
                        ELSE IF SubSeq(pre.data, 1, 8) # DISCRIMINATOR
                            THEN InvalidAccountData
                        ELSE Ok)
        /\ dlast.res # Ok => world = dlast.pre_world

\* The context was built over a counter record the program does not own, and
\* the handler's decode refused it.
C29_Witness ==
    /\ UpdateOnUserAndCounter
    /\ dlast.pre_world["counter"].owner # ID
    /\ dlast.handler = "update_counter"
    /\ dlast.res = InvalidAccountOwner

====
